---- MODULE Spec2Model ----
(***************************************************************************)
(* A model of the storage subsystem of ananke: the Store implementations   *)
(* (InMemoryStore, SqliteStore), the Application that drives a Store under *)
(* the content-derived id scheme, and the three opaque-id applications     *)
(* (JsonApplication, SqliteApplication, TextApplication), the schema       *)
(* marker with the migration engine, and the files the stores persist to.  *)
(*                                                                         *)
(* Strings are sequences of one-character strings; Python's None is the    *)
(* one-element sequence None, which no string of the model equals.         *)
(***************************************************************************)
EXTENDS Integers, Sequences, FiniteSets, TLC

VARIABLES
    storage,      \* InMemoryStore.storage: description -> set of Entry
    dirty,        \* InMemoryStore.dirty
    conn,         \* SqliteStore.conn: "none" before init, "open" after
    rows,         \* the rows of table entries behind SqliteStore.conn
    lastOp,       \* the call made last, its argument, and whether it repeats
                  \* the call before it
    memResult,    \* what the call returned on the InMemoryStore
    sqlResult,    \* what the call returned on the SqliteStore
    memOutcome,   \* "ok", or the error the call raised on the InMemoryStore
    sqlOutcome,   \* "ok", or the error the call raised on the SqliteStore
    clock,        \* the value Timestamp.now() returned last
    calls         \* the number of Application calls made so far

storeVars == <<storage, dirty, conn, rows, lastOp, memResult, sqlResult,
               memOutcome, sqlOutcome, clock, calls>>

\* the applications of the opaque id scheme, each over its own files
VARIABLES
    entries,       \* JsonApplication.entries
    data_file,     \* the JSON data file JsonApplication writes
    database,      \* the rows of table entries in SqliteApplication's database
    elements,      \* TextApplication.elements: the index
    index_file,    \* the index file TextApplication writes
    objects,       \* the object files of TextApplication, by entry id
    jsonOutcome,   \* "ok", or the error the call raised on JsonApplication
    sqliteOutcome, \* "ok", or the error the call raised on SqliteApplication
    textOutcome,   \* "ok", or the error the call raised on TextApplication
    lastCall       \* the call made last on the three applications

backendVars == <<entries, data_file, database, elements, index_file, objects,
                 jsonOutcome, sqliteOutcome, textOutcome, lastCall>>

\* the data directory application() starts on, and the migration engine
VARIABLES
    backend,       \* cfg.backend: "JSON", "SQLITE" or "TEXT"
    schema_file,   \* the schema marker file: None while missing, else its text
    cfg_data_file, \* cfg.data_file: None while missing, else its content
    steps,         \* the per-version steps the last call ran, as <<from, to>>
    migOutcome,    \* "ok", or the error the last call raised
    lastStart,     \* the call made last: migrate(cfg, found) or application()
    startups,      \* the number of calls made on the data directory
    uuids          \* the number of uuid.uuid4() values issued so far

dirVars == <<backend, schema_file, cfg_data_file, steps, migOutcome, lastStart,
             startups, uuids>>

\* what the two stores persist
VARIABLES
    store_file,    \* the JSON file JsonFileReader reads and JsonFileWriter writes
    db_file,       \* the committed rows of table entries in the database file
    db_exists,     \* whether the database file exists
    writes         \* the number of writer.write calls InMemoryStore.sync made

fileVars == <<store_file, db_file, db_exists, writes>>

\* a conversion applied on its own
VARIABLES
    argument,      \* the conversion applied last and the value it was given
    returned       \* the value it returned

fnVars == <<argument, returned>>

\* what the last TextApplication.lookup did
VARIABLES
    looked,        \* the records it returned
    reads          \* the ids of the object files it read, in order

textVars == <<looked, reads>>

vars == <<storeVars, backendVars, dirVars, fileVars, fnVars, textVars>>

-----------------------------------------------------------------------------
(* Bounds *)

\* the most entries a put may bring a store to
MaxEntries == 2

\* the largest value the clock reaches
MaxClock == 2

\* the most calls made on an Application
MaxCalls == 3

Timestamps == 0..MaxClock

-----------------------------------------------------------------------------
(* Strings *)

None == <<"None">>

\* str.lower() on one character
LowerChar(c) ==
    CASE c = "A" -> "a"
      [] c = "B" -> "b"
      [] c = "M" -> "m"
      [] c = "X" -> "x"
      [] c = "Y" -> "y"
      [] OTHER -> c

\* str.lower()
Lower(s) == [i \in 1..Len(s) |-> LowerChar(s[i])]

\* Python's `needle in hay` on strings
Contains(needle, hay) ==
    \E i \in 0..(Len(hay) - Len(needle)) :
        SubSeq(hay, i + 1, i + Len(needle)) = needle

\* SQLite's `value LIKE pattern`: "%" matches any run of characters, "_" any
\* one character, letters match without regard to case
RECURSIVE Like(_, _)
Like(pattern, value) ==
    IF pattern = <<>> THEN value = <<>>
    ELSE IF Head(pattern) = "%"
         THEN Like(Tail(pattern), value)
              \/ (value # <<>> /\ Like(pattern, Tail(value)))
         ELSE /\ value # <<>>
              /\ \/ Head(pattern) = "_"
                 \/ LowerChar(Head(pattern)) = LowerChar(Head(value))
              /\ Like(Tail(pattern), Tail(value))

\* a NULL column never satisfies LIKE
ColumnLike(value, pattern) == value # None /\ Like(pattern, value)

\* f"%{value}%"
Wrap(value) == <<"%">> \o value \o <<"%">>

-----------------------------------------------------------------------------
(* Entry and Query *)

Entry(entry_id, key_id, timestamp, description, identity, ciphertext, meta) ==
    [entry_id |-> entry_id, key_id |-> key_id, timestamp |-> timestamp,
     description |-> description, identity |-> identity,
     ciphertext |-> ciphertext, meta |-> meta]

Query(entry_id, description, identity, meta) ==
    [entry_id |-> entry_id, description |-> description,
     identity |-> identity, meta |-> meta]

is_empty(query) ==
    /\ query.entry_id = None
    /\ query.description = None
    /\ query.identity = None
    /\ query.meta = None

\* Python truthiness of an optional string: None and "" are false
Truthy(s) == s # None /\ s # <<>>

-----------------------------------------------------------------------------
(* InMemoryStore *)

EntryMap_add(map, entry) ==
    IF entry.description \in DOMAIN map
    THEN [map EXCEPT ![entry.description] = @ \cup {entry}]
    ELSE map @@ (entry.description :> {entry})

\* set.discard: no error when the entry is absent; the defaultdict creates
\* the key when it is missing
EntryMap_discard(map, entry) ==
    IF entry.description \in DOMAIN map
    THEN [map EXCEPT ![entry.description] = @ \ {entry}]
    ELSE map @@ (entry.description :> {})

match_id(query, entry) ==
    IF query.entry_id = None THEN TRUE
    ELSE query.entry_id = entry.entry_id

match_description(query, description) ==
    IF query.description = None THEN TRUE
    ELSE Contains(Lower(query.description), Lower(description))

\* match_identity without the test for an entry that has no identity
match_identity_IgnoringNone(query, entry) ==
    IF query.identity = None THEN TRUE
    ELSE IF entry.identity = None THEN TRUE
    ELSE Contains(Lower(query.identity), Lower(entry.identity))

match_identity(query, entry) ==
    IF query.identity = None THEN TRUE
    ELSE IF entry.identity = None THEN FALSE
    ELSE Contains(Lower(query.identity), Lower(entry.identity))

match_meta(query, entry) ==
    IF query.meta = None THEN TRUE
    ELSE IF entry.meta = None THEN FALSE
    ELSE Contains(Lower(query.meta), Lower(entry.meta))

InMemoryStore_query(map, query) ==
    { entry \in UNION { map[d] : d \in { k \in DOMAIN map : match_description(query, k) } } :
        match_id(query, entry) /\ match_identity(query, entry) /\ match_meta(query, entry) }

InMemoryStore_select_all(map) == UNION { map[d] : d \in DOMAIN map }

InMemoryStore_get_count(map) == Cardinality(InMemoryStore_select_all(map))

-----------------------------------------------------------------------------
(* SqliteStore *)

\* Timestamp.isoformat(): the text stored in the timestamp column
isoformat(timestamp) == <<"T", ToString(timestamp)>>

\* Ciphertext.to_base64(): the text stored in the ciphertext column
to_base64(ciphertext) == <<"b64">> \o ciphertext

\* the parameters put and _create_insert bind: one row of table entries
EntryToRow(entry) ==
    [id |-> entry.entry_id, keyid |-> entry.key_id,
     timestamp |-> isoformat(entry.timestamp),
     description |-> entry.description, identity |-> entry.identity,
     ciphertext |-> to_base64(entry.ciphertext), meta |-> entry.meta]

\* Timestamp.fromisoformat on a stored timestamp
fromisoformat(text) ==
    CHOOSE t \in Timestamps : isoformat(t) = text

\* Ciphertext.from_base64 on a stored ciphertext
from_base64(text) == Tail(text)

\* Entry.from_tuple: the Entry a selected row stands for
from_tuple(row) ==
    Entry(row.id, row.keyid, fromisoformat(row.timestamp),
          row.description, row.identity, from_base64(row.ciphertext), row.meta)

\* INSERT OR REPLACE on a table whose id column is UNIQUE
InsertOrReplace(table, row) == { r \in table : r.id # row.id } \cup {row}

SqliteStore_put(table, entry) == InsertOrReplace(table, EntryToRow(entry))

\* a remove that deletes by description, as SqliteApplication.remove does for
\* a description target
SqliteStore_remove_ByDescription(table, entry) ==
    { r \in table : r.description # entry.description }

\* DELETE FROM entries WHERE id = :id
SqliteStore_remove(table, entry) == { r \in table : r.id # entry.entry_id }

\* _create_query: the pattern bound to each column, None where the query
\* adds no predicate for it
SqliteStore_create_query(query) ==
    [id          |-> IF Truthy(query.entry_id) THEN query.entry_id ELSE None,
     description |-> IF Truthy(query.description) THEN Wrap(query.description) ELSE None,
     identity    |-> IF Truthy(query.identity) THEN query.identity ELSE None,
     meta        |-> IF Truthy(query.meta) THEN query.meta ELSE None]

\* a statement that ends in "WHERE " with no predicate does not compile
WhereIsBlank(where) ==
    /\ where.id = None
    /\ where.description = None
    /\ where.identity = None
    /\ where.meta = None

\* the rows a SELECT with the predicates of `where`, joined by AND, returns
SelectWhere(table, where) ==
    { r \in table :
        /\ where.id = None \/ ColumnLike(r.id, where.id)
        /\ where.description = None \/ ColumnLike(r.description, where.description)
        /\ where.identity = None \/ ColumnLike(r.identity, where.identity)
        /\ where.meta = None \/ ColumnLike(r.meta, where.meta) }

\* SqliteStore.query: "ok" with the entries, or the error raised
SqliteStore_query_outcome(connection, query) ==
    IF connection # "open" THEN "RuntimeError"
    ELSE IF is_empty(query) THEN "ok"
    ELSE IF WhereIsBlank(SqliteStore_create_query(query)) THEN "OperationalError"
    ELSE "ok"

SqliteStore_query(connection, table, query) ==
    IF SqliteStore_query_outcome(connection, query) # "ok" \/ is_empty(query)
    THEN {}
    ELSE { from_tuple(r) :
             r \in SelectWhere(table, SqliteStore_create_query(query)) }

SqliteStore_select_all(table) ==
    { from_tuple(r) : r \in table }

SqliteStore_get_count(table) == Cardinality(table)

-----------------------------------------------------------------------------
(* The stores side by side: every call is made on an InMemoryStore and on a *)
(* SqliteStore.                                                             *)

StoreIds == { <<"1">>, <<"2">> }
StoredDescriptions == { <<"A", "b">>, <<"b">> }
\* the (identity, meta) pairs of the entries put; InitialLoads adds the pair
\* with an identity and no meta
StoredIdentityMeta ==
    { <<None, None>>, <<None, <<"m", "n">>>>, <<<<"X", "y">>, <<"m", "n">>>> }

\* the entries a caller puts and removes
PutEntries ==
    { Entry(i, <<"K">>, 1, d, im[1], <<"c">>, im[2]) :
        i \in StoreIds, d \in StoredDescriptions, im \in StoredIdentityMeta }

\* the queries a caller runs
Queries ==
    { Query(None, d, idn, None) :
        d \in { None, <<>>, <<"a">> },
        idn \in { None, <<"x">>, <<"x", "Y">> } }
    \cup { Query(None, d, None, None) : d \in StoredDescriptions }
    \cup { Query(<<"1">>, None, None, None),
           Query(None, None, None, <<"M">>),
           Query(<<"1">>, None, None, <<"M">>),
           Query(<<"1">>, <<"a">>, <<"x">>, <<"M">>) }

\* what the reader hands to init: the records persisted by an earlier session
InitialLoads ==
    { {}, { Entry(<<"1">>, <<"K">>, 0, <<"A", "b">>, <<"X", "y">>, <<"c">>, None) } }

NoOp == [op |-> "new", arg |-> None, again |-> FALSE]

StoreInitState ==
    /\ storage = <<>>
    /\ dirty = FALSE
    /\ conn = "none"
    /\ rows = {}
    /\ lastOp = NoOp
    /\ memResult = {}
    /\ sqlResult = {}
    /\ memOutcome = "ok"
    /\ sqlOutcome = "ok"
    /\ clock = 0
    /\ calls = 0

NoCall == [op |-> "new", target |-> None, args |-> None]

\* the three applications constructed on empty directories
BackendInitState ==
    /\ entries = <<>>
    /\ data_file = None
    /\ database = {}
    /\ elements = <<>>
    /\ index_file = None
    /\ objects = <<>>
    /\ jsonOutcome = "ok"
    /\ sqliteOutcome = "ok"
    /\ textOutcome = "ok"
    /\ lastCall = NoCall

NoStart == [op |-> "new", found |-> None]

\* a data directory nothing has been written to, before application() runs
FreshDirectory ==
    /\ backend = "JSON"
    /\ schema_file = None
    /\ cfg_data_file = None
    /\ steps = <<>>
    /\ migOutcome = "ok"
    /\ lastStart = NoStart
    /\ startups = 0
    /\ uuids = 0

\* no file of either store exists yet
NoFiles ==
    /\ store_file = None
    /\ db_file = {}
    /\ db_exists = FALSE
    /\ writes = 0

\* no conversion has been applied
NoConversion ==
    /\ argument = None
    /\ returned = None

\* no lookup has run
NoLookup ==
    /\ looked = <<>>
    /\ reads = <<>>

\* the state after construction
InitState ==
    /\ StoreInitState
    /\ BackendInitState
    /\ FreshDirectory
    /\ NoFiles
    /\ NoConversion
    /\ NoLookup

RECURSIVE AddAll(_, _)
\* InMemoryStore.init: `for entry in reader.read(): self.storage.add(entry)`
AddAll(map, loaded) ==
    IF loaded = {} THEN map
    ELSE LET e == CHOOSE x \in loaded : TRUE
         IN AddAll(EntryMap_add(map, e), loaded \ {e})

\* Store.init(reader) on both stores; the database the connection opens holds
\* the same records as the file the JSON reader reads
StoreInit ==
    /\ conn = "none"
    /\ \E loaded \in InitialLoads :
        /\ storage' = AddAll(storage, loaded)
        /\ rows' = { EntryToRow(e) : e \in loaded }
    /\ conn' = "open"
    /\ lastOp' = [op |-> "init", arg |-> None, again |-> FALSE]
    /\ memResult' = {}
    /\ sqlResult' = {}
    /\ memOutcome' = "ok"
    /\ sqlOutcome' = "ok"
    /\ UNCHANGED <<dirty, clock, calls>>

\* a put that leaves the dirty flag as it found it
InMemoryStore_put_dirty_Kept(is_dirty) == is_dirty

\* InMemoryStore.put: `self.dirty = True`
InMemoryStore_put_dirty(is_dirty) == TRUE

\* Store.put(entry) on both stores, the entry taken from a pool
PutOf(pool) ==
    \E entry \in pool :
        /\ conn = "open"
        /\ InMemoryStore_get_count(storage) < MaxEntries
        /\ storage' = EntryMap_add(storage, entry)
        /\ dirty' = InMemoryStore_put_dirty(dirty)
        /\ memOutcome' = "ok"
        /\ IF conn = "open"
           THEN rows' = SqliteStore_put(rows, entry) /\ sqlOutcome' = "ok"
           ELSE rows' = rows /\ sqlOutcome' = "RuntimeError"
        /\ lastOp' = [op |-> "put", arg |-> entry, again |-> FALSE]
        /\ memResult' = {}
        /\ sqlResult' = {}
        /\ UNCHANGED <<conn, clock, calls>>

StorePut == PutOf(PutEntries)

\* Store.remove(entry) on both stores, the entry taken from a pool
RemoveOf(pool) ==
    \E entry \in pool :
        /\ conn = "open"
        /\ storage' = EntryMap_discard(storage, entry)
        /\ dirty' = TRUE
        /\ memOutcome' = "ok"
        /\ IF conn = "open"
           THEN rows' = SqliteStore_remove(rows, entry) /\ sqlOutcome' = "ok"
           ELSE rows' = rows /\ sqlOutcome' = "RuntimeError"
        /\ lastOp' = [op |-> "remove", arg |-> entry,
                      again |-> lastOp.op = "remove" /\ lastOp.arg = entry]
        /\ memResult' = {}
        /\ sqlResult' = {}
        /\ UNCHANGED <<conn, clock, calls>>

StoreRemove == RemoveOf(PutEntries)

\* Store.query(query) on both stores
StoreQuery ==
    \E query \in Queries :
        /\ conn = "open"
        /\ memResult' = InMemoryStore_query(storage, query)
        /\ memOutcome' = "ok"
        /\ sqlResult' = SqliteStore_query(conn, rows, query)
        /\ sqlOutcome' = SqliteStore_query_outcome(conn, query)
        /\ lastOp' = [op |-> "query", arg |-> query, again |-> FALSE]
        /\ UNCHANGED <<storage, dirty, conn, rows, clock, calls>>

\* Store.select_all() on both stores
StoreSelectAll ==
    /\ conn = "open"
    /\ memResult' = InMemoryStore_select_all(storage)
    /\ memOutcome' = "ok"
    /\ sqlResult' = IF conn = "open" THEN SqliteStore_select_all(rows) ELSE {}
    /\ sqlOutcome' = IF conn = "open" THEN "ok" ELSE "RuntimeError"
    /\ lastOp' = [op |-> "select_all", arg |-> None, again |-> FALSE]
    /\ UNCHANGED <<storage, dirty, conn, rows, clock, calls>>

StoreNext ==
    \/ StoreInit /\ UNCHANGED <<backendVars, dirVars, fileVars, fnVars, textVars>>
    \/ StorePut /\ UNCHANGED <<backendVars, dirVars, fileVars, fnVars, textVars>>
    \/ StoreRemove /\ UNCHANGED <<backendVars, dirVars, fileVars, fnVars, textVars>>
    \/ StoreQuery /\ UNCHANGED <<backendVars, dirVars, fileVars, fnVars, textVars>>
    \/ StoreSelectAll /\ UNCHANGED <<backendVars, dirVars, fileVars, fnVars, textVars>>

SpecStore == InitState /\ [][StoreNext]_vars

-----------------------------------------------------------------------------
(* Claims about the stores *)

MemEntries == InMemoryStore_select_all(storage)
SqlEntries == SqliteStore_select_all(rows)

\* C3: in every reachable state no two live records of a store share an
\* entry_id, and put(e) succeeds and leaves e as the one record with its id
C3_IdUniqueness ==
    /\ \A e1, e2 \in MemEntries : e1.entry_id = e2.entry_id => e1 = e2
    /\ \A r1, r2 \in rows : r1.id = r2.id => r1 = r2
    /\ lastOp.op = "put" =>
        /\ memOutcome = "ok"
        /\ sqlOutcome = "ok"
        /\ { e \in MemEntries : e.entry_id = lastOp.arg.entry_id } = { lastOp.arg }
        /\ { e \in SqlEntries : e.entry_id = lastOp.arg.entry_id } = { lastOp.arg }

\* case-insensitive containment of a query value in an optional entry value,
\* stated by position: some slice of the entry value equals the query value
\* once both are lower-cased
ContainsIgnoringCase(queryValue, entryValue) ==
    /\ entryValue # None
    /\ \E a \in 0..Len(entryValue) : \E b \in a..Len(entryValue) :
         Lower(SubSeq(entryValue, a + 1, b)) = Lower(queryValue)

\* the matching rule of the claim
ClaimedMatch(query, entry) ==
    /\ query.entry_id = None \/ query.entry_id = entry.entry_id
    /\ query.description = None \/ ContainsIgnoringCase(query.description, entry.description)
    /\ query.identity = None \/ ContainsIgnoringCase(query.identity, entry.identity)
    /\ query.meta = None \/ ContainsIgnoringCase(query.meta, entry.meta)

\* C4: InMemoryStore.query(q) returns exactly the stored entries for which
\* every present field of q matches: description, identity and meta by
\* case-insensitive substring containment, entry_id by equality, an absent
\* field matching any entry, and an identity never matching an entry without one
C4_QueryMatching ==
    lastOp.op = "query" =>
        /\ memOutcome = "ok"
        /\ memResult = { e \in MemEntries : ClaimedMatch(lastOp.arg, e) }

\* C4 witness: a query with a description that is a proper substring in
\* another case and with an identity has returned one entry and left out a
\* stored entry that has no identity
C4_Witness ==
    /\ lastOp.op = "query"
    /\ lastOp.arg.description = <<"a">>
    /\ lastOp.arg.identity = <<"x">>
    /\ \E e \in memResult : e.description = <<"A", "b">> /\ e.identity = <<"X", "y">>
    /\ \E e \in MemEntries \ memResult : e.description = <<"A", "b">> /\ e.identity = None

\* C5: on both stores query(Query()) with every field absent returns the
\* empty list, while select_all() returns every stored record
C5_EmptyQuery ==
    /\ (lastOp.op = "query" /\ is_empty(lastOp.arg)) =>
           memResult = {} /\ sqlResult = {}
    /\ lastOp.op = "select_all" =>
           memResult = MemEntries /\ sqlResult = SqlEntries

\* C6: for every set of stored entries and every query with a field present,
\* InMemoryStore.query and SqliteStore.query return the same entries and
\* neither raises
C6_SameResults ==
    (lastOp.op = "query" /\ ~is_empty(lastOp.arg) /\ MemEntries = SqlEntries) =>
        /\ memOutcome = "ok"
        /\ sqlOutcome = "ok"
        /\ memResult = sqlResult

\* no stored record of either store has the entry's id
NotStored(entry) ==
    /\ \A e \in MemEntries : e.entry_id # entry.entry_id
    /\ \A r \in rows : r.id # entry.entry_id

\* C8: a remove(e) that repeats the remove(e) just before it raises nothing
\* and leaves select_all and get_count of both stores as the first call left
\* them; a remove of an entry whose id is not stored changes no record set
C8_IdempotentRemove ==
    [][ /\ (lastOp.op = "remove" /\ lastOp'.op = "remove" /\ lastOp'.arg = lastOp.arg) =>
            /\ memOutcome' = "ok"
            /\ sqlOutcome' = "ok"
            /\ InMemoryStore_select_all(storage') = InMemoryStore_select_all(storage)
            /\ InMemoryStore_get_count(storage') = InMemoryStore_get_count(storage)
            /\ SqliteStore_select_all(rows') = SqliteStore_select_all(rows)
            /\ SqliteStore_get_count(rows') = SqliteStore_get_count(rows)
        /\ (lastOp'.op = "remove" /\ NotStored(lastOp'.arg)) =>
            /\ memOutcome' = "ok"
            /\ sqlOutcome' = "ok"
            /\ InMemoryStore_select_all(storage') = InMemoryStore_select_all(storage)
            /\ SqliteStore_select_all(rows') = SqliteStore_select_all(rows)
      ]_storeVars

\* C8 witness: remove(e) has been called twice in succession while another
\* record with e's description stays in both stores
C8_Witness ==
    /\ lastOp.op = "remove"
    /\ lastOp.again
    /\ \E e \in MemEntries : e.description = lastOp.arg.description
    /\ \E e \in SqlEntries : e.description = lastOp.arg.description


-----------------------------------------------------------------------------
(* Application over a Store: the content-derived id scheme *)

\* hashlib.sha1(...).hexdigest(), taken to be injective
sha1(text) == <<"#">> \o text

\* EntryId.generate(key_id, timestamp, description, maybe_identity)
generate(key_id, timestamp, description, maybe_identity) ==
    sha1(key_id \o isoformat(timestamp) \o description
         \o (IF Truthy(maybe_identity) THEN maybe_identity ELSE <<>>))

\* codec.key_id
CodecKeyId == <<"K">>

\* codec.encode(plaintext): GPG's output differs from one run to the next,
\* so each call's ciphertext carries the number of the call
encode(plaintext, nonce) == <<"gpg", ToString(nonce)>> \o plaintext

\* codec.decode(ciphertext)
decode(ciphertext) == Tail(Tail(ciphertext))

IdTarget(value) == [kind |-> "EntryId", value |-> value]
DescriptionTarget(value) == [kind |-> "Description", value |-> value]

\* Query(entry_id=target) if isinstance(target, EntryId) else Query(description=target)
TargetQuery(target) ==
    IF target.kind = "EntryId"
    THEN Query(target.value, None, None, None)
    ELSE Query(None, target.value, None, None)

\* the checks modify and remove make on the query results
SelectOutcome(query_results) ==
    IF Cardinality(query_results) = 0 THEN "NoEntries"
    ELSE IF Cardinality(query_results) # 1 THEN "MultipleEntries"
    ELSE "ok"

\* query_results[0] of a result list with one element
TheOne(query_results) == CHOOSE e \in query_results : TRUE

\* the new_entry Application.modify builds from the entry it found
Application_new_entry(entry, args, timestamp, nonce) ==
    LET description == IF args.description # None THEN args.description ELSE entry.description
        identity == IF args.identity # None THEN args.identity ELSE entry.identity
        ciphertext == IF args.plaintext # None THEN encode(args.plaintext, nonce)
                      ELSE entry.ciphertext
        meta == IF args.meta # None THEN args.meta ELSE entry.meta
    IN Entry(generate(CodecKeyId, timestamp, description, identity), CodecKeyId,
             timestamp, description, identity, ciphertext, meta)

\* the store after `self.store.put(new_entry); self.store.remove(entry)`
InMemoryStore_put_remove(map, new_entry, entry) ==
    EntryMap_discard(EntryMap_add(map, new_entry), entry)

SqliteStore_put_remove(table, new_entry, entry) ==
    SqliteStore_remove(SqliteStore_put(table, new_entry), entry)

\* what add is called with
AddDescriptions == { <<"a", "b">>, <<"b">> }
AddIdentityMeta == { <<None, None>>, <<<<"x">>, <<"m">>>> }

\* what modify is called with: nothing, or one field
ModifyArgs ==
    { [description |-> None, identity |-> None, plaintext |-> None, meta |-> None],
      [description |-> <<"b">>, identity |-> None, plaintext |-> None, meta |-> None],
      [description |-> None, identity |-> <<"x">>, plaintext |-> None, meta |-> None],
      [description |-> None, identity |-> None, plaintext |-> <<"q">>, meta |-> None],
      [description |-> None, identity |-> None, plaintext |-> None, meta |-> <<"m">>] }

\* the targets of modify and remove: a description, or the id of a record
AppTargets ==
    { DescriptionTarget(<<"a">>), DescriptionTarget(<<"b">>), DescriptionTarget(<<"z">>) }
    \cup { IdTarget(e.entry_id) : e \in MemEntries \cup SqlEntries }

\* the record an earlier session left in the file and in the database
AppInitialLoads ==
    { {}, { Entry(generate(CodecKeyId, 0, <<"a", "b">>, <<"x">>), CodecKeyId, 0,
                  <<"a", "b">>, <<"x">>, encode(<<"p">>, 0), None) } }

\* Timestamp.now(): the wall clock has not moved since the last reading of
\* this session, or has moved on; it is past the earlier session's records
Now == { t \in { clock, clock + 1 } : t > 0 /\ t <= MaxClock }

\* Application.init() through __enter__, on both stores
AppInit ==
    /\ conn = "none"
    /\ \E loaded \in AppInitialLoads :
        /\ storage' = AddAll(storage, loaded)
        /\ rows' = { EntryToRow(e) : e \in loaded }
    /\ conn' = "open"
    /\ lastOp' = [op |-> "init", arg |-> None, again |-> FALSE]
    /\ memResult' = {}
    /\ sqlResult' = {}
    /\ memOutcome' = "ok"
    /\ sqlOutcome' = "ok"
    /\ UNCHANGED <<dirty, clock, calls>>

\* Application.add(description, plaintext, maybe_identity, maybe_meta)
AppAdd ==
    \E description \in AddDescriptions, im \in AddIdentityMeta, timestamp \in Now :
        LET entry == Entry(generate(CodecKeyId, timestamp, description, im[1]),
                           CodecKeyId, timestamp, description, im[1],
                           encode(<<"p">>, calls + 1), im[2])
        IN /\ conn = "open"
           /\ calls < MaxCalls
           /\ InMemoryStore_get_count(storage) < MaxEntries
           /\ storage' = EntryMap_add(storage, entry)
           /\ dirty' = TRUE
           /\ rows' = SqliteStore_put(rows, entry)
           /\ memOutcome' = "ok"
           /\ sqlOutcome' = "ok"
           /\ memResult' = {}
           /\ sqlResult' = {}
           /\ lastOp' = [op |-> "add", arg |-> entry, again |-> FALSE]
           /\ clock' = timestamp
           /\ calls' = calls + 1
           /\ UNCHANGED conn

\* Application.modify(target, maybe_description, maybe_identity,
\* maybe_plaintext, maybe_meta)
AppModify ==
    \E target \in AppTargets, args \in ModifyArgs, timestamp \in Now :
        LET memFound == InMemoryStore_query(storage, TargetQuery(target))
            sqlFound == SqliteStore_query(conn, rows, TargetQuery(target))
            memNew == Application_new_entry(TheOne(memFound), args, timestamp, calls + 1)
            sqlNew == Application_new_entry(TheOne(sqlFound), args, timestamp, calls + 1)
        IN /\ conn = "open"
           /\ calls < MaxCalls
           /\ memOutcome' = SelectOutcome(memFound)
           /\ sqlOutcome' = SelectOutcome(sqlFound)
           /\ IF SelectOutcome(memFound) = "ok"
              THEN /\ storage' = InMemoryStore_put_remove(storage, memNew, TheOne(memFound))
                   /\ dirty' = TRUE
              ELSE UNCHANGED <<storage, dirty>>
           /\ IF SelectOutcome(sqlFound) = "ok"
              THEN rows' = SqliteStore_put_remove(rows, sqlNew, TheOne(sqlFound))
              ELSE UNCHANGED rows
           /\ memResult' = {}
           /\ sqlResult' = {}
           /\ lastOp' = [op |-> "modify", arg |-> [target |-> target, args |-> args],
                         again |-> FALSE]
           /\ clock' = timestamp
           /\ calls' = calls + 1
           /\ UNCHANGED conn

\* Application.remove(target)
AppRemove ==
    \E target \in AppTargets :
        LET memFound == InMemoryStore_query(storage, TargetQuery(target))
            sqlFound == SqliteStore_query(conn, rows, TargetQuery(target))
        IN /\ conn = "open"
           /\ calls < MaxCalls
           /\ memOutcome' = SelectOutcome(memFound)
           /\ sqlOutcome' = SelectOutcome(sqlFound)
           /\ IF SelectOutcome(memFound) = "ok"
              THEN /\ storage' = EntryMap_discard(storage, TheOne(memFound))
                   /\ dirty' = TRUE
              ELSE UNCHANGED <<storage, dirty>>
           /\ IF SelectOutcome(sqlFound) = "ok"
              THEN rows' = SqliteStore_remove(rows, TheOne(sqlFound))
              ELSE UNCHANGED rows
           /\ memResult' = {}
           /\ sqlResult' = {}
           /\ lastOp' = [op |-> "remove", arg |-> [target |-> target], again |-> FALSE]
           /\ calls' = calls + 1
           /\ UNCHANGED <<conn, clock>>

\* Application.lookup(description, maybe_identity): the entries found, each
\* with its decoded plaintext
AppLookup ==
    \E description \in { <<"a">>, <<"b">> }, maybe_identity \in { None, <<"x">> } :
        LET query == Query(None, description, maybe_identity, None)
        IN /\ conn = "open"
           /\ calls < MaxCalls
           /\ memResult' = { <<e, decode(e.ciphertext)>> :
                               e \in InMemoryStore_query(storage, query) }
           /\ sqlResult' = { <<e, decode(e.ciphertext)>> :
                               e \in SqliteStore_query(conn, rows, query) }
           /\ memOutcome' = "ok"
           /\ sqlOutcome' = SqliteStore_query_outcome(conn, query)
           /\ lastOp' = [op |-> "lookup", arg |-> query, again |-> FALSE]
           /\ calls' = calls + 1
           /\ UNCHANGED <<storage, dirty, conn, rows, clock>>

AppNext ==
    \/ AppInit /\ UNCHANGED <<backendVars, dirVars, fileVars, fnVars, textVars>>
    \/ AppAdd /\ UNCHANGED <<backendVars, dirVars, fileVars, fnVars, textVars>>
    \/ AppModify /\ UNCHANGED <<backendVars, dirVars, fileVars, fnVars, textVars>>
    \/ AppRemove /\ UNCHANGED <<backendVars, dirVars, fileVars, fnVars, textVars>>
    \/ AppLookup /\ UNCHANGED <<backendVars, dirVars, fileVars, fnVars, textVars>>

SpecApp == InitState /\ [][AppNext]_vars

\* the fields a modify call supplied have the new values in new_entry, the
\* others are those of the target
FieldsReplaced(new_entry, target_entry, args) ==
    /\ new_entry.description =
         (IF args.description # None THEN args.description ELSE target_entry.description)
    /\ new_entry.identity =
         (IF args.identity # None THEN args.identity ELSE target_entry.identity)
    /\ decode(new_entry.ciphertext) =
         (IF args.plaintext # None THEN args.plaintext ELSE decode(target_entry.ciphertext))
    /\ new_entry.meta = (IF args.meta # None THEN args.meta ELSE target_entry.meta)
    /\ new_entry.key_id = target_entry.key_id

\* after the call the records are those of before, with one new record in
\* the place of the target, differing from it in id and timestamp
ReplacedByNew(before, after, target_entry, args) ==
    \E new_entry \in after :
        /\ new_entry \notin before \ { target_entry }
        /\ after = (before \ { target_entry }) \cup { new_entry }
        /\ target_entry \notin after
        /\ new_entry.entry_id # target_entry.entry_id
        /\ new_entry.timestamp # target_entry.timestamp
        /\ FieldsReplaced(new_entry, target_entry, args)

\* C10: a successful Application.modify leaves, on the InMemoryStore and on
\* the SqliteStore, exactly one new record in place of the target: its id and
\* timestamp differ from the target's, the supplied fields have the new
\* values, the unsupplied fields are the target's, and the target is gone.
C10_InsertNewDeleteOld ==
    [][ (lastOp'.op = "modify" /\ memOutcome' = "ok" /\ sqlOutcome' = "ok")
        => LET query == TargetQuery(lastOp'.arg.target)
               memTarget == TheOne(InMemoryStore_query(storage, query))
               sqlTarget == TheOne(SqliteStore_query(conn, rows, query))
           IN /\ ReplacedByNew(MemEntries, MemEntries', memTarget, lastOp'.arg.args)
              /\ ReplacedByNew(SqlEntries, SqlEntries', sqlTarget, lastOp'.arg.args)
      ]_storeVars

-----------------------------------------------------------------------------
(* The applications of the opaque id scheme: JsonApplication,              *)
(* SqliteApplication, TextApplication                                      *)

\* EntryId.generate(): uuid.uuid4(), a value no earlier call has produced
EntryId_generate(nonce) == <<"u", ToString(nonce)>>

\* Binary.encrypt(plaintext): GPG output, which differs from run to run
Binary_encrypt(plaintext, nonce) == <<"bin", ToString(nonce)>> \o plaintext

\* Binary.decrypt(ciphertext)
Binary_decrypt(ciphertext) == Tail(Tail(ciphertext))

\* Text.encrypt(plaintext): the armored text of a file
Text_encrypt(plaintext, nonce) == <<"asc", nonce, plaintext>>

\* Text.decrypt(armored)
Text_decrypt(armored) == armored[3]

\* common.target_matches(target, entry)
target_matches(target, entry) ==
    IF target.kind = "EntryId"
    THEN target.value = entry.entry_id
    ELSE Contains(target.value, entry.description)

\* [i for i, entry in enumerate(xs) if common.target_matches(target, entry)]
idxs(xs, target) == { i \in 1..Len(xs) : target_matches(target, xs[i]) }

\* the checks on idxs_len
IdxsOutcome(found) ==
    IF Cardinality(found) = 0 THEN "NoEntries"
    ELSE IF Cardinality(found) > 1 THEN "MultipleEntries"
    ELSE "ok"

\* idxs[0]
FirstIdx(found) == CHOOSE i \in found : \A j \in found : i <= j

\* xs after xs.pop(idx)
Pop(xs, idx) == SubSeq(xs, 1, idx - 1) \o SubSeq(xs, idx + 1, Len(xs))

\* list.sort(key=timestamp) puts one more element into a sorted list: behind
\* the elements that are not later than it
InsertByTimestamp(sorted, entry) ==
    LET k == Cardinality({ i \in 1..Len(sorted) : sorted[i].timestamp <= entry.timestamp })
    IN SubSeq(sorted, 1, k) \o <<entry>> \o SubSeq(sorted, k + 1, Len(sorted))

RECURSIVE SortByTimestamp(_)
\* writes.sort(key=lambda entry: entry.timestamp), a stable sort
SortByTimestamp(xs) ==
    IF xs = <<>> THEN <<>>
    ELSE InsertByTimestamp(SortByTimestamp(SubSeq(xs, 1, Len(xs) - 1)), xs[Len(xs)])

\* Entry.to_dict(): one element of the JSON data file
Entry_to_dict(entry) ==
    [timestamp |-> isoformat(entry.timestamp), id |-> entry.entry_id,
     key_id |-> entry.key_id, description |-> entry.description,
     ciphertext |-> to_base64(entry.ciphertext)]
    @@ (IF entry.identity # None THEN "identity" :> entry.identity ELSE <<>>)
    @@ (IF entry.meta # None THEN "meta" :> entry.meta ELSE <<>>)

\* json._write(path, writes): the text written to the data file
JsonFile(xs) == <<"json", [i \in 1..Len(xs) |-> Entry_to_dict(xs[i])]>>

\* the fields modify sets on the entry it found
WithArgs(entry, args) ==
    [entry EXCEPT
       !.description = IF args.description # None THEN args.description ELSE @,
       !.identity = IF args.identity # None THEN args.identity ELSE @,
       !.meta = IF args.meta # None THEN args.meta ELSE @]

\* Entry.update(): the timestamp becomes Timestamp.now()
Entry_update(entry, timestamp) == [entry EXCEPT !.timestamp = timestamp]

\* the entry JsonApplication.modify and SqliteApplication.modify write back
Entry_modified(entry, args, ciphertext, timestamp) ==
    Entry_update(
        [WithArgs(entry, args) EXCEPT
           !.ciphertext = IF args.plaintext # None THEN ciphertext ELSE @],
        timestamp)

\* JsonApplication.entries after add
JsonApplication_add(xs, entry) == SortByTimestamp(Append(xs, entry))

\* JsonApplication.entries after a modify that found one entry
JsonApplication_modify(xs, target, args, timestamp, nonce) ==
    LET idx == FirstIdx(idxs(xs, target))
        entry == Entry_modified(xs[idx], args,
                                Binary_encrypt(args.plaintext, nonce), timestamp)
    IN SortByTimestamp(Append(Pop(xs, idx), entry))

\* JsonApplication.entries after a remove that found one entry
JsonApplication_remove(xs, target) ==
    SortByTimestamp(Pop(xs, FirstIdx(idxs(xs, target))))

\* sqlite._create_query: the pattern bound to each column, None where the
\* query adds no predicate for it
SqliteApplication_create_query(query) ==
    [id          |-> IF Truthy(query.entry_id) THEN query.entry_id ELSE None,
     description |-> IF Truthy(query.description) THEN Wrap(query.description) ELSE None,
     identity    |-> IF Truthy(query.identity) THEN Wrap(query.identity) ELSE None,
     meta        |-> IF Truthy(query.meta) THEN query.meta ELSE None]

\* the entries SqliteApplication.modify reads with the query for its target
SqliteApplication_select(rs, target) ==
    { from_tuple(r) :
        r \in SelectWhere(rs, SqliteApplication_create_query(TargetQuery(target))) }

\* how SqliteApplication.modify ends
SqliteApplication_modify_outcome(rs, target) ==
    IF WhereIsBlank(SqliteApplication_create_query(TargetQuery(target)))
    THEN "OperationalError"
    ELSE IdxsOutcome(SqliteApplication_select(rs, target))

\* the WHERE clause of sqlite._create_update
UpdateWhere(target, row) ==
    IF target.kind = "EntryId"
    THEN row.id = target.value
    ELSE ColumnLike(row.description, target.value)

\* the table after the UPDATE of sqlite._create_update(target, entry)
SqliteApplication_update(rs, target, entry) ==
    { IF UpdateWhere(target, r) THEN EntryToRow(entry) ELSE r : r \in rs }

\* the table after a modify that found one entry
SqliteApplication_modify(rs, target, args, timestamp, nonce) ==
    LET found == TheOne(SqliteApplication_select(rs, target))
        entry == Entry_modified(found, args, encode(args.plaintext, nonce), timestamp)
    IN SqliteApplication_update(rs, target, entry)

\* the table after SqliteApplication.add
SqliteApplication_add(rs, entry) == InsertOrReplace(rs, EntryToRow(entry))

\* the table after SqliteApplication.remove: one DELETE, by id or by the
\* whole description
SqliteApplication_remove(rs, target) ==
    IF target.kind = "EntryId"
    THEN { r \in rs : r.id # target.value }
    ELSE { r \in rs : r.description # target.value }

\* SecureEntry(entry_id, key_id, timestamp, description, identity, plaintext, meta)
SecureEntry(entry_id, key_id, timestamp, description, identity, plaintext, meta) ==
    [entry_id |-> entry_id, key_id |-> key_id, timestamp |-> timestamp,
     description |-> description, identity |-> identity,
     plaintext |-> plaintext, meta |-> meta]

\* SecureEntry.to_dict()
SecureEntry_to_dict(entry) ==
    [timestamp |-> isoformat(entry.timestamp), id |-> entry.entry_id,
     key_id |-> entry.key_id, description |-> entry.description,
     plaintext |-> entry.plaintext]
    @@ (IF entry.identity # None THEN "identity" :> entry.identity ELSE <<>>)
    @@ (IF entry.meta # None THEN "meta" :> entry.meta ELSE <<>>)

\* SecureEntry.from_dict(data)
SecureEntry_from_dict(data) ==
    SecureEntry(data.id, data.key_id, fromisoformat(data.timestamp),
                data.description,
                IF "identity" \in DOMAIN data /\ Truthy(data.identity)
                THEN data.identity ELSE None,
                data.plaintext,
                IF "meta" \in DOMAIN data /\ Truthy(data.meta)
                THEN data.meta ELSE None)

\* SecureEntry.update()
SecureEntry_update(entry, timestamp) == [entry EXCEPT !.timestamp = timestamp]

\* SecureEntry.to_index_element()
to_index_element(entry) ==
    [entry_id |-> entry.entry_id, key_id |-> entry.key_id,
     description |-> entry.description]

\* TextApplication.write_index(): the text written to the index file
TextApplication_write_index(elems, nonce) ==
    Text_encrypt(elems, nonce)

\* TextApplication.entry(entry_id): the object file read back
TextApplication_entry(files, entry_id) ==
    SecureEntry_from_dict(Text_decrypt(files[entry_id]))

\* the object files after TextApplication.write_entry(entry)
TextApplication_write_entry(files, entry, nonce) ==
    [i \in DOMAIN files \cup { entry.entry_id } |->
        IF i = entry.entry_id
        THEN Text_encrypt(SecureEntry_to_dict(entry), nonce)
        ELSE files[i]]

\* a delete_entry that leaves the object file where it is
TextApplication_delete_entry_Kept(files, entry_id) == files

\* the object files after TextApplication.delete_entry(entry_id)
TextApplication_delete_entry(files, entry_id) ==
    [i \in DOMAIN files \ { entry_id } |-> files[i]]

\* the entry TextApplication.modify writes back
SecureEntry_modified(entry, args, timestamp) ==
    SecureEntry_update(
        [WithArgs(entry, args) EXCEPT
           !.plaintext = IF args.plaintext # None THEN args.plaintext ELSE @],
        timestamp)

\* TextApplication.elements after a modify that found one element
TextApplication_modify_elements(elems, target, args) ==
    LET idx == FirstIdx(idxs(elems, target))
        elem == [elems[idx] EXCEPT
                   !.description = IF args.description # None THEN args.description ELSE @]
    IN Append(Pop(elems, idx), elem)

\* the object files after a modify that found one element
TextApplication_modify_objects(files, elems, target, args, timestamp, nonce) ==
    LET elem == elems[FirstIdx(idxs(elems, target))]
        entry == SecureEntry_modified(TextApplication_entry(files, elem.entry_id),
                                      args, timestamp)
    IN TextApplication_write_entry(files, entry, nonce)

\* what add is called with on the three applications
BackendDescriptions == { <<"A", "b">>, <<"b">> }

\* the ids of the records the applications hold
BackendIds ==
    { entries[i].entry_id : i \in 1..Len(entries) }
    \cup { r.id : r \in database }
    \cup { elements[i].entry_id : i \in 1..Len(elements) }

\* the targets of modify and remove: a description, or the id of a record
BackendTargets ==
    { DescriptionTarget(<<"A">>), DescriptionTarget(<<"b">>), DescriptionTarget(<<"z">>) }
    \cup { IdTarget(i) : i \in BackendIds }

\* add(description, plaintext, maybe_identity, maybe_meta) on the three
\* applications
BackendAdd ==
    \E description \in BackendDescriptions, im \in AddIdentityMeta, timestamp \in Now :
        LET nonce == calls + 1
            entry_id == EntryId_generate(nonce)
            jsonEntry == Entry(entry_id, CodecKeyId, timestamp, description, im[1],
                               Binary_encrypt(<<"p">>, nonce), im[2])
            sqliteEntry == Entry(entry_id, CodecKeyId, timestamp, description, im[1],
                                 encode(<<"p">>, nonce), im[2])
            textEntry == SecureEntry(entry_id, CodecKeyId, timestamp, description, im[1],
                                     <<"p">>, im[2])
        IN /\ calls < MaxCalls
           /\ Len(entries) < MaxEntries
           /\ Cardinality(database) < MaxEntries
           /\ Len(elements) < MaxEntries
           /\ entries' = JsonApplication_add(entries, jsonEntry)
           /\ data_file' = JsonFile(entries')
           /\ database' = SqliteApplication_add(database, sqliteEntry)
           /\ objects' = TextApplication_write_entry(objects, textEntry, nonce)
           /\ elements' = Append(elements, to_index_element(textEntry))
           /\ index_file' = TextApplication_write_index(elements', nonce)
           /\ jsonOutcome' = "ok"
           /\ sqliteOutcome' = "ok"
           /\ textOutcome' = "ok"
           /\ lastCall' = [op |-> "add", target |-> IdTarget(entry_id),
                           args |-> [description |-> description, identity |-> im[1],
                                     plaintext |-> <<"p">>, meta |-> im[2]]]
           /\ clock' = timestamp
           /\ calls' = calls + 1

\* modify(target, maybe_description, maybe_identity, maybe_plaintext,
\* maybe_meta) on the three applications
BackendModify ==
    \E target \in BackendTargets, args \in ModifyArgs, timestamp \in Now :
        LET nonce == calls + 1
        IN /\ calls < MaxCalls
           /\ jsonOutcome' = IdxsOutcome(idxs(entries, target))
           /\ IF jsonOutcome' = "ok"
              THEN /\ entries' = JsonApplication_modify(entries, target, args, timestamp, nonce)
                   /\ data_file' = JsonFile(entries')
              ELSE UNCHANGED <<entries, data_file>>
           /\ sqliteOutcome' = SqliteApplication_modify_outcome(database, target)
           /\ IF sqliteOutcome' = "ok"
              THEN database' = SqliteApplication_modify(database, target, args, timestamp, nonce)
              ELSE UNCHANGED database
           /\ textOutcome' = IdxsOutcome(idxs(elements, target))
           /\ IF textOutcome' = "ok"
              THEN /\ objects' = TextApplication_modify_objects(objects, elements, target,
                                                                args, timestamp, nonce)
                   /\ elements' = TextApplication_modify_elements(elements, target, args)
                   /\ index_file' = TextApplication_write_index(elements', nonce)
              ELSE UNCHANGED <<objects, elements, index_file>>
           /\ lastCall' = [op |-> "modify", target |-> target, args |-> args]
           /\ clock' = timestamp
           /\ calls' = calls + 1

\* remove(target) on the three applications
BackendRemove ==
    \E target \in BackendTargets :
        LET nonce == calls + 1
        IN /\ calls < MaxCalls
           /\ jsonOutcome' = IdxsOutcome(idxs(entries, target))
           /\ IF jsonOutcome' = "ok"
              THEN /\ entries' = JsonApplication_remove(entries, target)
                   /\ data_file' = JsonFile(entries')
              ELSE UNCHANGED <<entries, data_file>>
           /\ sqliteOutcome' = "ok"
           /\ database' = SqliteApplication_remove(database, target)
           /\ textOutcome' = IdxsOutcome(idxs(elements, target))
           /\ IF textOutcome' = "ok"
              THEN LET idx == FirstIdx(idxs(elements, target))
                   IN /\ elements' = Pop(elements, idx)
                      /\ objects' = TextApplication_delete_entry(objects, elements[idx].entry_id)
                      /\ index_file' = TextApplication_write_index(elements', nonce)
              ELSE UNCHANGED <<objects, elements, index_file>>
           /\ lastCall' = [op |-> "remove", target |-> target, args |-> None]
           /\ calls' = calls + 1
           /\ UNCHANGED clock

storeOnlyVars == <<storage, dirty, conn, rows, lastOp, memResult, sqlResult,
                   memOutcome, sqlOutcome>>

BackendNext ==
    \/ BackendAdd /\ UNCHANGED <<storeOnlyVars, dirVars, fileVars, fnVars, textVars>>
    \/ BackendModify /\ UNCHANGED <<storeOnlyVars, dirVars, fileVars, fnVars, textVars>>
    \/ BackendRemove /\ UNCHANGED <<storeOnlyVars, dirVars, fileVars, fnVars, textVars>>

SpecBackends == InitState /\ [][BackendNext]_vars

-----------------------------------------------------------------------------
(* Claims about the applications of the opaque id scheme *)

\* what a caller reads of a record: its fields, with the plaintext
RecordView(entry, plaintext) ==
    [entry_id |-> entry.entry_id, timestamp |-> entry.timestamp,
     description |-> entry.description, identity |-> entry.identity,
     plaintext |-> plaintext, meta |-> entry.meta]

\* the records of JsonApplication
JsonRecords(xs) ==
    { RecordView(xs[i], Binary_decrypt(xs[i].ciphertext)) : i \in 1..Len(xs) }

\* the records of SqliteApplication
SqliteRecords(rs) ==
    { RecordView(from_tuple(r), decode(from_tuple(r).ciphertext)) : r \in rs }

\* the records of TextApplication: the object of each index element
TextRecords(elems, files) ==
    { RecordView(TextApplication_entry(files, elems[i].entry_id),
                 TextApplication_entry(files, elems[i].entry_id).plaintext) :
        i \in { j \in 1..Len(elems) : elems[j].entry_id \in DOMAIN files } }

\* a record without its timestamp
Logical(view) ==
    [entry_id |-> view.entry_id, description |-> view.description,
     identity |-> view.identity, plaintext |-> view.plaintext, meta |-> view.meta]

LogicalSet(views) == { Logical(v) : v \in views }

\* C1: the same calls replayed on JsonApplication, SqliteApplication and
\* TextApplication, each started empty, end the same way on the three (success
\* or the same error) and leave the same logical records, timestamps aside.
C1_BackendEquivalence ==
    /\ jsonOutcome = sqliteOutcome
    /\ sqliteOutcome = textOutcome
    /\ LogicalSet(JsonRecords(entries)) = LogicalSet(SqliteRecords(database))
    /\ LogicalSet(SqliteRecords(database)) = LogicalSet(TextRecords(elements, objects))

\* the ids the index lists
IndexIds(elems) == { elems[i].entry_id : i \in 1..Len(elems) }

\* C2: after every sequence of add, modify and remove calls on TextApplication
\* the ids the index lists, in memory and in the index file, are exactly the
\* ids that have an object file, each listed once.
C2_IndexObjectAgreement ==
    /\ IndexIds(elements) = DOMAIN objects
    /\ Len(elements) = Cardinality(DOMAIN objects)
    /\ index_file # None => Text_decrypt(index_file) = elements

\* C2 happens: a remove has deleted one of the two records added
C2_Witness ==
    /\ lastCall.op = "remove"
    /\ textOutcome = "ok"
    /\ Len(elements) = 1
    /\ Cardinality(DOMAIN objects) = 1

\* the records a target selects: by id, or by a description that holds the
\* target's text
Selected(views, target) == { v \in views : target_matches(target, v) }

\* the records a target selects when the case of letters is ignored
SelectedIgnoringCase(views, target) ==
    { v \in views :
        IF target.kind = "EntryId"
        THEN target.value = v.entry_id
        ELSE Contains(Lower(target.value), Lower(v.description)) }

\* what C7 asks of one application in a modify or remove call that found the
\* records `before` and left the records `after`
TargetsOneRecord(before, after, target, outcome) ==
    /\ SelectedIgnoringCase(before, target) = {}
         => outcome = "NoEntries" /\ after = before
    /\ Cardinality(Selected(before, target)) > 1
         => outcome = "MultipleEntries" /\ after = before
    /\ after # before
         => /\ outcome = "ok"
            /\ SelectedIgnoringCase(before, target) # {}
            /\ Cardinality(Selected(before, target)) <= 1

\* C7: modify and remove raise "no entries match" when no record matches the
\* target and "multiple entries match" when several do, leaving the records
\* as they were; a record changes or goes only when one record matches. Stated
\* of JsonApplication, SqliteApplication and TextApplication.
C7_TargetOneRecord ==
    [][ lastCall'.op \in { "modify", "remove" }
        => /\ TargetsOneRecord(JsonRecords(entries), JsonRecords(entries'),
                               lastCall'.target, jsonOutcome')
           /\ TargetsOneRecord(SqliteRecords(database), SqliteRecords(database'),
                               lastCall'.target, sqliteOutcome')
           /\ TargetsOneRecord(TextRecords(elements, objects),
                               TextRecords(elements', objects'),
                               lastCall'.target, textOutcome')
      ]_vars

\* the record a successful modify leaves for the record `old`
Modified(old, args, timestamp) ==
    [entry_id |-> old.entry_id,
     timestamp |-> timestamp,
     description |-> IF args.description # None THEN args.description ELSE old.description,
     identity |-> IF args.identity # None THEN args.identity ELSE old.identity,
     plaintext |-> IF args.plaintext # None THEN args.plaintext ELSE old.plaintext,
     meta |-> IF args.meta # None THEN args.meta ELSE old.meta]

\* what C9 asks of one application in a modify call that ended with `outcome`
ModifiesInPlace(before, after, target, args, outcome, timestamp) ==
    (outcome = "ok" /\ Cardinality(Selected(before, target)) = 1)
    => LET old == TheOne(Selected(before, target))
       IN after = (before \ { old }) \cup { Modified(old, args, timestamp) }

\* C9: a successful modify of the one record the target selects, by id or by
\* a part of its description, keeps the record's id, sets its timestamp to the
\* time of the call, replaces the supplied fields and leaves the other fields
\* and the other records as they were. Stated of JsonApplication,
\* SqliteApplication and TextApplication.
C9_ModifyInPlace ==
    [][ lastCall'.op = "modify"
        => /\ ModifiesInPlace(JsonRecords(entries), JsonRecords(entries'),
                              lastCall'.target, lastCall'.args, jsonOutcome', clock')
           /\ ModifiesInPlace(SqliteRecords(database), SqliteRecords(database'),
                              lastCall'.target, lastCall'.args, sqliteOutcome', clock')
           /\ ModifiesInPlace(TextRecords(elements, objects),
                              TextRecords(elements', objects'),
                              lastCall'.target, lastCall'.args, textOutcome', clock')
      ]_vars

(***************************************************************************)
(* Schema versions and the migration engine.  A data directory holds the   *)
(* schema marker and cfg.data_file; application() reads the marker and     *)
(* migrates the data file when the marker is older than the current        *)
(* version.  A JSON data file is a list of dictionaries (functions from    *)
(* key to value), a SQLite data file a function from table name to the set *)
(* of its rows.                                                            *)
(***************************************************************************)

\* the largest schema version a marker or a migrate call names; the versions
\* above 4 stand for unknown ones such as 2^63 - 1
MaxVersion == 5

\* the number of records a data file holds at most
MaxRecords == 2

\* the number of calls made on one data directory
MaxStartups == 2

CURRENT_SCHEMA_VERSION == 3

SchemaVersions == 1..MaxVersion

\* SchemaVersion.__str__: the decimal text of the value, one digit here
SchemaVersion_str(version) == <<ToString(version)>>

\* SchemaVersion.from_str: int(version)
SchemaVersion_from_str(text) ==
    CHOOSE version \in 0..(MaxVersion + 1) : <<ToString(version)>> = text

\* str(uuid.uuid4()): the n-th value issued, different from every other one
uuid4(n) == <<"u", ToString(n)>>

\* uuid.UUID(text) accepts the text
IsUuid(text) == text[1] = "u"

PASCAL_TO_CAMEL ==
    [key \in {"Timestamp", "Id", "KeyId", "Description", "Identity",
              "Ciphertext", "Meta"} |->
        CASE key = "Timestamp" -> "timestamp"
          [] key = "Id" -> "id"
          [] key = "KeyId" -> "keyId"
          [] key = "Description" -> "description"
          [] key = "Identity" -> "identity"
          [] key = "Ciphertext" -> "ciphertext"
          [] key = "Meta" -> "meta"]

\* mapping.get(key, key)
MappedKey(mapping, key) == IF key \in DOMAIN mapping THEN mapping[key] ELSE key

\* remap_keys: {mapping.get(key, key): value for key, value in data.items()}
\* (no dictionary of the model holds two keys that map to the same key)
remap_keys(mapping, data) ==
    [new \in { MappedKey(mapping, key) : key \in DOMAIN data } |->
        data[CHOOSE key \in DOMAIN data : MappedKey(mapping, key) = new]]

remap_keys_to_v3(data) == remap_keys(PASCAL_TO_CAMEL, data)

\* a v2 -> v3 step that writes the list back without renaming a key
migrate_json_v2_to_v3_Unmapped(data) == data

\* _migrate_json_v2_to_v3 on the list the data file holds
migrate_json_v2_to_v3(data) ==
    [i \in 1..Len(data) |-> remap_keys_to_v3(data[i])]

\* entry["id"] = value
SetKey(entry, key, value) ==
    [k \in DOMAIN entry \cup {key} |-> IF k = key THEN value ELSE entry[k]]

\* _migrate_json_v3_to_v4 on the list the data file holds, n values of
\* uuid.uuid4() having been issued before
migrate_json_v3_to_v4(data, n) ==
    [i \in 1..Len(data) |-> SetKey(data[i], "id", uuid4(n + i))]

MigrationResult(file, ran, issued, outcome) ==
    [file |-> file, steps |-> ran, uuids |-> issued, outcome |-> outcome]

\* migrate_json_data(data_file, from_version)
migrate_json_data(file, from_version, n) ==
    IF file = None THEN MigrationResult(file, <<>>, n, "ok")
    ELSE IF from_version = 3
    THEN MigrationResult(<<"json", migrate_json_v3_to_v4(file[2], n)>>,
                         <<<<3, 4>>>>, n + Len(file[2]), "ok")
    ELSE IF from_version = 2
    THEN MigrationResult(
             <<"json", migrate_json_v3_to_v4(migrate_json_v2_to_v3(file[2]), n)>>,
             <<<<2, 3>>, <<3, 4>>>>, n + Len(file[2]), "ok")
    ELSE MigrationResult(file, <<>>, n, "MigrationError")

SqliteColumns ==
    {"id", "keyid", "timestamp", "description", "identity", "ciphertext", "meta"}

\* a v1 -> v2 step that adds the keyid column without a value
migrate_sqlite_v1_to_v2_NullKey(tables, key_id) ==
    [name \in {"entries"} |->
        { [column \in SqliteColumns |->
              IF column = "keyid" THEN None ELSE old[column]] :
          old \in tables["entries"] }]

\* _migrate_sqlite_v1_to_v2 on the tables of the data file: entries becomes
\* entries_v1, a new entries takes its rows with keyid = config.key_id, and
\* entries_v1 is dropped
migrate_sqlite_v1_to_v2(tables, key_id) ==
    [name \in {"entries"} |->
        { [column \in SqliteColumns |->
              IF column = "keyid" THEN key_id ELSE old[column]] :
          old \in tables["entries"] }]

\* _migrate_sqlite_v2_to_v3: no statement
migrate_sqlite_v2_to_v3(tables) == tables

\* the position of old_id in the rows `SELECT id FROM entries` returned
Position(old_ids, old_id) ==
    CHOOSE i \in 1..Len(old_ids) : old_ids[i] = old_id

\* _migrate_sqlite_v3_to_v4 on the tables of the data file: entries becomes
\* entries_v3, a new entries takes its rows, each id in old_ids (the order
\* the SELECT returned them in) is updated to a new uuid.uuid4(), and
\* entries_v3 is dropped
migrate_sqlite_v3_to_v4(tables, old_ids, n) ==
    [name \in {"entries"} |->
        { [old EXCEPT !.id = uuid4(n + Position(old_ids, old.id))] :
          old \in tables["entries"] }]

\* the orders `SELECT id FROM entries` can return the ids of the rows in
SelectIds(tables) ==
    LET ids == { row.id : row \in tables["entries"] }
    IN  { order \in [1..Cardinality(ids) -> ids] :
            \A i, j \in DOMAIN order : i # j => order[i] # order[j] }

\* migrate_sqlite_data(data_file, from_version, config); old_ids is the order
\* the v3 -> v4 step reads the ids in
migrate_sqlite_data(file, from_version, key_id, old_ids, n) ==
    LET count == Len(old_ids)
    IN  IF file = None THEN MigrationResult(file, <<>>, n, "ok")
        ELSE IF from_version = 3
        THEN MigrationResult(
                 <<"sqlite", migrate_sqlite_v3_to_v4(file[2], old_ids, n)>>,
                 <<<<3, 4>>>>, n + count, "ok")
        ELSE IF from_version = 2
        THEN MigrationResult(
                 <<"sqlite", migrate_sqlite_v3_to_v4(
                                 migrate_sqlite_v2_to_v3(file[2]), old_ids, n)>>,
                 <<<<2, 3>>, <<3, 4>>>>, n + count, "ok")
        ELSE IF from_version = 1
        THEN MigrationResult(
                 <<"sqlite", migrate_sqlite_v3_to_v4(
                                 migrate_sqlite_v2_to_v3(
                                     migrate_sqlite_v1_to_v2(file[2], key_id)),
                                 old_ids, n)>>,
                 <<<<1, 2>>, <<2, 3>>, <<3, 4>>>>, n + count, "ok")
        ELSE MigrationResult(file, <<>>, n, "MigrationError")

\* cli.migrate(cfg, found): the text backend has no migration
migrate(cfg_backend, file, found, key_id, old_ids, n) ==
    IF cfg_backend = "JSON" THEN migrate_json_data(file, found, n)
    ELSE IF cfg_backend = "SQLITE"
    THEN migrate_sqlite_data(file, found, key_id, old_ids, n)
    ELSE MigrationResult(file, <<>>, n, "ok")

\* a get_schema_version that writes the current version whatever it read
get_schema_version_Rewriting(marker) ==
    [schema_file |-> SchemaVersion_str(CURRENT_SCHEMA_VERSION),
     version |-> IF marker = None THEN CURRENT_SCHEMA_VERSION
                 ELSE SchemaVersion_from_str(marker),
     wrote |-> TRUE]

\* get_schema_version: the marker after the call, the version returned and
\* whether the writer was called
get_schema_version(marker) ==
    IF marker = None
    THEN [schema_file |-> SchemaVersion_str(CURRENT_SCHEMA_VERSION),
          version |-> CURRENT_SCHEMA_VERSION, wrote |-> TRUE]
    ELSE [schema_file |-> marker, version |-> SchemaVersion_from_str(marker),
          wrote |-> FALSE]

Backends == {"JSON", "SQLITE", "TEXT"}

\* the id record k carries: a hash up to schema version 3, a UUID from 4 on
RecordId(k, version) ==
    IF version >= 4 THEN <<"u", "x", ToString(k)>> ELSE <<"h", ToString(k)>>

\* record k of a JSON data file written under a schema version: PascalCase
\* keys up to version 2, camelCase keys from 3 on; the records with an even
\* k carry neither identity nor meta
JsonRecord(k, version) ==
    LET full == [Timestamp |-> k, Id |-> RecordId(k, version), KeyId |-> <<"J">>,
                 Description |-> <<"d", ToString(k)>>, Identity |-> <<"i">>,
                 Ciphertext |-> <<"c", ToString(k)>>, Meta |-> None]
        bare == [key \in DOMAIN full \ {"Identity", "Meta"} |-> full[key]]
        kept == IF k % 2 = 0 THEN bare ELSE full
    IN  IF version <= 2 THEN kept ELSE remap_keys_to_v3(kept)

\* row k of table entries written under a schema version: no keyid column
\* in version 1
SqliteRow(k, version) ==
    LET row == [id |-> RecordId(k, version), keyid |-> <<"J">>, timestamp |-> k,
                description |-> <<"d", ToString(k)>>,
                identity |-> IF k % 2 = 0 THEN None ELSE <<"i">>,
                ciphertext |-> <<"c", ToString(k)>>, meta |-> None]
    IN  IF version = 1 THEN [column \in SqliteColumns \ {"keyid"} |-> row[column]]
        ELSE row

\* the lists of distinct records a JSON data file can hold
RecordLists ==
    UNION { { order \in [1..n -> 1..MaxRecords] :
                \A i, j \in 1..n : i # j => order[i] # order[j] } :
            n \in 0..MaxRecords }

\* the contents cfg.data_file can have in a directory of a schema version
DataFiles(cfg_backend, version) ==
    {None} \cup
    CASE cfg_backend = "JSON" ->
            { <<"json", [i \in DOMAIN order |-> JsonRecord(order[i], version)]>> :
              order \in RecordLists }
      [] cfg_backend = "SQLITE" ->
            { <<"sqlite", [name \in {"entries"} |->
                              { SqliteRow(k, version) : k \in held }]>> :
              held \in SUBSET (1..MaxRecords) }
      [] OTHER -> { <<"text">> }

\* a data directory before the program runs on it: never used, or left by a
\* program of some schema version
DirectoryInitState ==
    /\ backend \in Backends
    /\ \/ /\ schema_file = None
          /\ cfg_data_file = None
       \/ \E version \in SchemaVersions :
            /\ schema_file = SchemaVersion_str(version)
            /\ cfg_data_file \in DataFiles(backend, version)
    /\ steps = <<>>
    /\ migOutcome = "ok"
    /\ lastStart = NoStart
    /\ startups = 0
    /\ uuids = 0

MigrationInitState ==
    /\ StoreInitState
    /\ BackendInitState
    /\ DirectoryInitState
    /\ NoFiles
    /\ NoConversion
    /\ NoLookup

\* the orders the v3 -> v4 step can read the ids of the data file in
OldIds(file) ==
    IF file # None /\ file[1] = "sqlite" THEN SelectIds(file[2]) ELSE { <<>> }

\* migrate(cfg, found) called on the directory as the first call, with the
\* version the marker names or with a version the engine has no path from
MigrateCall ==
    /\ lastStart = NoStart
    /\ startups < MaxStartups
    /\ \E found \in SchemaVersions, old_ids \in OldIds(cfg_data_file) :
         LET result == migrate(backend, cfg_data_file, found, CodecKeyId,
                               old_ids, uuids)
         IN  /\ \/ schema_file = SchemaVersion_str(found)
                \/ result.outcome # "ok"
                \/ cfg_data_file = None
             /\ cfg_data_file' = result.file
             /\ steps' = result.steps
             /\ uuids' = result.uuids
             /\ migOutcome' = result.outcome
             /\ lastStart' = [op |-> "migrate", found |-> found]
    /\ startups' = startups + 1
    /\ UNCHANGED <<backend, schema_file>>

\* cli.application: read the marker, migrate when it is older than the
\* current version, refuse when it is newer, then construct the application
Startup ==
    /\ startups < MaxStartups
    /\ LET read == get_schema_version(schema_file)
       IN  /\ schema_file' = read.schema_file
           /\ lastStart' = [op |-> "application", found |-> read.version,
                            wrote |-> read.wrote]
           /\ IF read.version < CURRENT_SCHEMA_VERSION
              THEN \E old_ids \in OldIds(cfg_data_file) :
                     LET result == migrate(backend, cfg_data_file, read.version,
                                           CodecKeyId, old_ids, uuids)
                     IN  /\ cfg_data_file' = result.file
                         /\ steps' = result.steps
                         /\ uuids' = result.uuids
                         /\ migOutcome' = result.outcome
              ELSE /\ migOutcome' = IF read.version > CURRENT_SCHEMA_VERSION
                                    THEN "RuntimeError" ELSE "ok"
                   /\ steps' = <<>>
                   /\ UNCHANGED <<cfg_data_file, uuids>>
    /\ startups' = startups + 1
    /\ UNCHANGED backend

MigrationNext ==
    \/ MigrateCall /\ UNCHANGED <<storeVars, backendVars, fileVars, fnVars, textVars>>
    \/ Startup /\ UNCHANGED <<storeVars, backendVars, fileVars, fnVars, textVars>>

SpecMigration == MigrationInitState /\ [][MigrationNext]_vars

\* the starting versions the engine has a path from
SupportedStart(cfg_backend, found) ==
    \/ cfg_backend = "JSON" /\ found \in {2, 3}
    \/ cfg_backend = "SQLITE" /\ found \in {1, 2, 3}

\* the per-version steps from a starting version up to version 4, in order
Chain(found) == [i \in 1..(4 - found) |-> <<found + i - 1, found + i>>]

\* what the marker reads once str(CURRENT_SCHEMA_VERSION) is written to it
MarkerWritten == SchemaVersion_from_str(SchemaVersion_str(CURRENT_SCHEMA_VERSION))

\* C11: Migration chain.  After one migrate call from a supported starting
\* version on an existing data file, the steps run are exactly v(found) ->
\* v(found+1) -> ... -> v4, in increasing order and none below the starting
\* version, the call succeeds, and the version the chain ends in is the
\* current one: the marker written from CURRENT_SCHEMA_VERSION reads 4.
C11_MigrationChain ==
    ( /\ lastStart.op = "migrate"
      /\ SupportedStart(backend, lastStart.found)
      /\ cfg_data_file # None )
    => /\ migOutcome = "ok"
       /\ steps = Chain(lastStart.found)
       /\ steps[Len(steps)][2] = MarkerWritten
       /\ MarkerWritten = 4

\* the versions the claim names as having no path: the unknown ones, those
\* above version 4, and version 1 on the JSON backend
NoPath(cfg_backend, found) ==
    \/ found > 4
    \/ cfg_backend = "JSON" /\ found = 1

\* C12: Unsupported version.  On every backend and with every content of
\* the data directory, a migrate call from a version that has no defined
\* path raises a migration error and leaves the data file and the marker as
\* they were.
C12_UnsupportedVersion ==
    [][ ( /\ lastStart'.op = "migrate"
          /\ startups' = startups + 1
          /\ NoPath(backend, lastStart'.found) )
        => /\ migOutcome' = "MigrationError"
           /\ cfg_data_file' = cfg_data_file
           /\ schema_file' = schema_file ]_vars

\* application() found a marker older than the current version and migrated
StartupMigrated ==
    /\ lastStart.op = "application"
    /\ lastStart.found < CURRENT_SCHEMA_VERSION
    /\ migOutcome = "ok"

\* C13: Migration runs once.  After a startup that found a stale marker and
\* migrated, the marker holds the current version, and the startup that
\* follows on the same directory runs no migration step and leaves the data
\* file, with every record's id, as it was.
C13_MigrationRunsOnce ==
    [][ StartupMigrated
        => /\ schema_file = SchemaVersion_str(CURRENT_SCHEMA_VERSION)
           /\ ( lastStart'.op = "application" /\ startups' = startups + 1 )
              => /\ steps' = <<>>
                 /\ cfg_data_file' = cfg_data_file ]_vars

PascalKeys ==
    {"Timestamp", "Id", "KeyId", "Description", "Identity", "Ciphertext", "Meta"}

\* the camelCase name the schema gives each PascalCase key but Id
CamelNames ==
    { <<"Timestamp", "timestamp">>, <<"KeyId", "keyId">>,
      <<"Description", "description">>, <<"Identity", "identity">>,
      <<"Ciphertext", "ciphertext">>, <<"Meta", "meta">> }

\* a JSON data file of schema version 2: every key of every record is one of
\* the PascalCase keys
IsV2JsonFile(file) ==
    /\ file # None
    /\ file[1] = "json"
    /\ \A i \in DOMAIN file[2] :
         /\ "Id" \in DOMAIN file[2][i]
         /\ DOMAIN file[2][i] \subseteq PascalKeys

\* the call made in this step migrates the JSON data file from version 2
MigratesJsonFromV2 ==
    /\ backend = "JSON"
    /\ IsV2JsonFile(cfg_data_file)
    /\ startups' = startups + 1
    /\ lastStart'.found = 2

\* C14: JSON v2 -> v4 migration.  Migrating a v2 JSON data file keeps the
\* number and the order of the records and each record's keyId,
\* description, ciphertext, timestamp, identity and meta values under the
\* camelCase names, leaves no PascalCase key, and gives each record an id
\* that parses as a UUID in place of the old one.
C14_JsonV2ToV4 ==
    [][ MigratesJsonFromV2
        => LET old == cfg_data_file[2]
               new == cfg_data_file'[2]
           IN  /\ migOutcome' = "ok"
               /\ Len(new) = Len(old)
               /\ \A i \in DOMAIN old :
                    /\ \A pair \in CamelNames :
                         IF pair[1] \in DOMAIN old[i]
                         THEN /\ pair[2] \in DOMAIN new[i]
                              /\ new[i][pair[2]] = old[i][pair[1]]
                         ELSE pair[2] \notin DOMAIN new[i]
                    /\ DOMAIN new[i] \cap PascalKeys = {}
                    /\ "id" \in DOMAIN new[i]
                    /\ IsUuid(new[i]["id"])
                    /\ new[i]["id"] # old[i]["Id"] ]_vars

\* a v2 file of two records, one with and one without identity and meta,
\* has been migrated
C14_Witness ==
    /\ backend = "JSON"
    /\ lastStart.op = "migrate"
    /\ lastStart.found = 2
    /\ steps = <<<<2, 3>>, <<3, 4>>>>
    /\ cfg_data_file # None
    /\ Len(cfg_data_file[2]) = 2
    /\ startups = 1
    /\ \E i, j \in DOMAIN cfg_data_file[2] :
         /\ "identity" \in DOMAIN cfg_data_file[2][i]
         /\ "identity" \notin DOMAIN cfg_data_file[2][j]
         /\ IsUuid(cfg_data_file[2][i]["id"])

\* a SQLite data file of schema version 1: table entries has no keyid column
IsV1SqliteFile(file) ==
    /\ file # None
    /\ file[1] = "sqlite"
    /\ DOMAIN file[2] = {"entries"}
    /\ \A row \in file[2]["entries"] : "keyid" \notin DOMAIN row

\* the call made in this step migrates the SQLite data file from version 1
MigratesSqliteFromV1 ==
    /\ backend = "SQLITE"
    /\ IsV1SqliteFile(cfg_data_file)
    /\ startups' = startups + 1
    /\ lastStart'.found = 1

\* the columns of a row other than id and keyid
Preserved(row) ==
    [column \in {"timestamp", "description", "identity", "ciphertext", "meta"} |->
        row[column]]

\* C15: SQL v1 -> v4 migration.  Migrating a v1 table that lacks a keyid
\* column, with configured key K, leaves table entries with the same number
\* of rows, every keyid equal to K, every id a valid UUID and the ids
\* pairwise distinct, and the timestamp, description, identity, ciphertext
\* and meta of each row preserved; neither entries_v1 nor entries_v3 remains.
C15_SqliteV1ToV4 ==
    [][ MigratesSqliteFromV1
        => LET old == cfg_data_file[2]["entries"]
               new == cfg_data_file'[2]["entries"]
           IN  /\ migOutcome' = "ok"
               /\ DOMAIN cfg_data_file'[2] = {"entries"}
               /\ Cardinality(new) = Cardinality(old)
               /\ \A row \in new : row.keyid = CodecKeyId /\ IsUuid(row.id)
               /\ Cardinality({ row.id : row \in new }) = Cardinality(new)
               /\ { row.id : row \in new } \cap { row.id : row \in old } = {}
               /\ { Preserved(row) : row \in new }
                    = { Preserved(row) : row \in old } ]_vars

\* a v1 table of two rows has been migrated
C15_Witness ==
    /\ backend = "SQLITE"
    /\ lastStart.op = "migrate"
    /\ lastStart.found = 1
    /\ steps = <<<<1, 2>>, <<2, 3>>, <<3, 4>>>>
    /\ cfg_data_file # None
    /\ Cardinality(cfg_data_file[2]["entries"]) = 2
    /\ \A row \in cfg_data_file[2]["entries"] : row.keyid = CodecKeyId

-----------------------------------------------------------------------------
(***************************************************************************)
(* Persistence of the two stores: InMemoryStore loads from the JSON file   *)
(* through JsonFileReader and writes it through JsonFileWriter on sync;    *)
(* SqliteStore works on a connection to the database file.  A JSON value   *)
(* carries its type: <<"str", s>>, <<"number">>, <<"null">>,               *)
(* <<"object", dict>> or <<"list", items>>.                                *)
(***************************************************************************)

JsonStr(value) == <<"str", value>>

\* isinstance(value, str) on a parsed JSON value
IsStr(value) == value[1] = "str"

CAMEL_TO_SNAKE ==
    [key \in {"timestamp", "id", "keyId", "description", "identity",
              "ciphertext", "meta", "Timestamp", "Id", "KeyId", "Description",
              "Identity", "Ciphertext", "Meta"} |->
        CASE key \in {"timestamp", "Timestamp"} -> "timestamp"
          [] key \in {"id", "Id"} -> "id"
          [] key \in {"keyId", "KeyId"} -> "key_id"
          [] key \in {"description", "Description"} -> "description"
          [] key \in {"identity", "Identity"} -> "identity"
          [] key \in {"ciphertext", "Ciphertext"} -> "ciphertext"
          [] key \in {"meta", "Meta"} -> "meta"]

SNAKE_TO_CAMEL ==
    [key \in {"timestamp", "id", "key_id", "description", "identity",
              "ciphertext", "meta"} |->
        IF key = "key_id" THEN "keyId" ELSE key]

remap_keys_camel_to_snake(data) == remap_keys(CAMEL_TO_SNAKE, data)

remap_keys_snake_to_camel(data) == remap_keys(SNAKE_TO_CAMEL, data)

\* Timestamp.fromisoformat accepts the text
IsIsoformat(text) == \E t \in Timestamps : isoformat(t) = text

\* Ciphertext.from_base64 accepts the text
IsBase64(text) == text # <<>> /\ text[1] = "b64"

\* data.get(key) is None
IsAbsent(data, key) == key \notin DOMAIN data \/ data[key] = <<"null">>

\* Entry.from_dict raises ValueError on the dictionary
Entry_from_dict_raises(data) ==
    \/ \E key \in {"id", "key_id", "timestamp", "description", "ciphertext"} :
         key \notin DOMAIN data \/ ~IsStr(data[key])
    \/ \E key \in {"identity", "meta"} :
         ~IsAbsent(data, key) /\ ~IsStr(data[key])
    \/ ~IsIsoformat(data["timestamp"][2])
    \/ ~IsBase64(data["ciphertext"][2])

\* maybe_value of Entry.from_dict, kept only when truthy
OptionalValue(data, key) ==
    IF ~IsAbsent(data, key) /\ Truthy(data[key][2]) THEN data[key][2] ELSE None

\* Entry.from_dict on a dictionary it accepts
Entry_from_dict(data) ==
    Entry(data["id"][2], data["key_id"][2], fromisoformat(data["timestamp"][2]),
          data["description"][2], OptionalValue(data, "identity"),
          from_base64(data["ciphertext"][2]), OptionalValue(data, "meta"))

\* the error JsonFileReader.read raises at an element of the list, or "ok"
ItemOutcome(item) ==
    IF item[1] # "object" THEN "TypeError"
    ELSE IF Entry_from_dict_raises(remap_keys_camel_to_snake(item[2]))
    THEN "ValueError"
    ELSE "ok"

\* the elements JsonFileReader.read raises at
BadItems(items) == { i \in DOMAIN items : ItemOutcome(items[i]) # "ok" }

FirstBad(items) == CHOOSE i \in BadItems(items) : \A j \in BadItems(items) : i <= j

\* ret of JsonFileReader.read after the first n elements
Parsed(items, n) ==
    [i \in 1..n |-> Entry_from_dict(remap_keys_camel_to_snake(items[i][2]))]

ReadResult(outcome, read) == [outcome |-> outcome, entries |-> read]

\* a reader that hands init the records it parsed before it raises
JsonFileReader_read_Partial(file) ==
    IF file = None THEN ReadResult("FileNotFoundError", <<>>)
    ELSE IF file[1] # "json" THEN ReadResult("JSONDecodeError", <<>>)
    ELSE IF file[2][1] # "list" THEN ReadResult("TypeError", <<>>)
    ELSE LET items == file[2][2]
         IN  IF BadItems(items) = {}
             THEN ReadResult("ok", Parsed(items, Len(items)))
             ELSE ReadResult(ItemOutcome(items[FirstBad(items)]),
                             Parsed(items, FirstBad(items) - 1))

\* JsonFileReader.read: the outcome, and the list init iterates over
JsonFileReader_read(file) ==
    IF file = None THEN ReadResult("FileNotFoundError", <<>>)
    ELSE IF file[1] # "json" THEN ReadResult("JSONDecodeError", <<>>)
    ELSE IF file[2][1] # "list" THEN ReadResult("TypeError", <<>>)
    ELSE LET items == file[2][2]
         IN  IF BadItems(items) = {}
             THEN ReadResult("ok", Parsed(items, Len(items)))
             ELSE ReadResult(ItemOutcome(items[FirstBad(items)]), <<>>)

\* json.dumps of one entry: remap_keys_snake_to_camel(entry.to_dict())
JsonObject(entry) ==
    LET dict == remap_keys_snake_to_camel(Entry_to_dict(entry))
    IN  <<"object", [key \in DOMAIN dict |-> JsonStr(dict[key])]>>

\* a writer that serializes the entries in the order it received them
JsonFileWriter_write_Unsorted(written) ==
    <<"json", <<"list", [i \in 1..Len(written) |-> JsonObject(written[i])]>>>>

\* JsonFileWriter.write: the content of the file after the call
JsonFileWriter_write(written) ==
    LET sorted == SortByTimestamp(written)
    IN  <<"json", <<"list", [i \in 1..Len(sorted) |-> JsonObject(sorted[i])]>>>>

\* the orders list(select_all()) can have: the entries come out of sets
SelectAllOrders(map) ==
    LET all == InMemoryStore_select_all(map)
    IN  { order \in [1..Cardinality(all) -> all] :
            \A i, j \in DOMAIN order : i # j => order[i] # order[j] }

\* two records an earlier session persisted
Persisted ==
    << Entry(<<"1">>, <<"K">>, 0, <<"A", "b">>, <<"X", "y">>, <<"c">>, None),
       Entry(<<"9">>, <<"K">>, 2, <<"z">>, None, <<"c">>, <<"M">>) >>

\* elements of a corrupted file: not an object; a required key missing; an
\* ill-typed required or optional value; an unparsable timestamp or
\* ciphertext
BadItems_Pool ==
    LET good == JsonObject(Persisted[1])[2]
    IN  { <<"number">>,
          <<"object", [key \in DOMAIN good \ {"ciphertext"} |-> good[key]]>>,
          <<"object", [key \in DOMAIN good \ {"keyId"} |-> good[key]]>>,
          <<"object", [good EXCEPT !["description"] = <<"number">>]>>,
          <<"object", [good EXCEPT !["identity"] = <<"number">>]>>,
          <<"object", [good EXCEPT !["timestamp"] = JsonStr(<<"n", "o", "w">>)]>>,
          <<"object", [good EXCEPT !["ciphertext"] = JsonStr(<<"!">>)]>> }

\* the JSON file init can find: missing, not a list, written by an earlier
\* session, or holding a bad element after or before a good one
StoreFiles ==
    { None, <<"json", <<"object", <<>>>>>>,
      JsonFileWriter_write(<<>>),
      JsonFileWriter_write(<<Persisted[1]>>),
      JsonFileWriter_write(Persisted) }
    \cup { <<"json", <<"list", <<JsonObject(Persisted[2]), bad>>>>>> :
           bad \in BadItems_Pool }
    \cup { <<"json", <<"list", <<bad, JsonObject(Persisted[2])>>>>>> :
           bad \in BadItems_Pool }

\* the stores before init, over the files an earlier session left
PersistInitState ==
    /\ StoreInitState
    /\ BackendInitState
    /\ FreshDirectory
    /\ store_file \in StoreFiles
    /\ \/ db_exists = FALSE /\ db_file = {}
       \/ db_exists = TRUE /\ db_file \in { {}, { EntryToRow(Persisted[1]) } }
    /\ writes = 0
    /\ NoConversion
    /\ NoLookup

\* the elements of a list
Elements(list) == { list[i] : i \in DOMAIN list }

\* InMemoryStore.init(JsonFileReader) and SqliteStore.init(
\* SqliteConnectionReader); a session whose JSON file does not load ends.
\* sqlite3.connect and CREATE TABLE IF NOT EXISTS create the database file
\* when it is missing
StoreOpen ==
    /\ conn = "none"
    /\ lastOp = NoOp
    /\ LET read == JsonFileReader_read(store_file)
       IN  /\ storage' = AddAll(storage, Elements(read.entries))
           /\ memOutcome' = read.outcome
           /\ conn' = IF read.outcome = "ok" THEN "open" ELSE "failed"
    /\ rows' = db_file
    /\ db_exists' = TRUE
    /\ sqlOutcome' = "ok"
    /\ lastOp' = [op |-> "init", arg |-> None, again |-> FALSE]
    /\ memResult' = {}
    /\ sqlResult' = {}
    /\ UNCHANGED <<dirty, clock, calls, store_file, db_file, writes>>

\* what file_writer can leave behind when it fails: nothing written, or
\* the file truncated
Torn == <<"torn">>

\* a sync that writes whether the store is dirty or not
InMemoryStore_sync_writes_Always(is_dirty) == TRUE

\* InMemoryStore.sync: `if not self.dirty: return`
InMemoryStore_sync_writes(is_dirty) == is_dirty

\* a sync that clears the flag whether writer.write returned or raised
InMemoryStore_sync_dirty_Cleared(raised) == FALSE

\* InMemoryStore.sync: `writer.write(entries); self.dirty = False`, the
\* flag of a dirty store after the call
InMemoryStore_sync_dirty(raised) == raised

\* the writer handed to sync: one whose write raises, or one that writes
Writer(fails) == IF fails THEN <<"failing">> ELSE <<"working">>

\* InMemoryStore.sync(writer)
InMemoryStoreSync ==
    /\ conn \in {"open", "closed"}
    /\ writes < MaxCalls
    /\ \E fails \in BOOLEAN :
         /\ lastOp' = [op |-> "sync", arg |-> Writer(fails),
                       again |-> lastOp.op = "sync"]
         /\ IF ~InMemoryStore_sync_writes(dirty)
            THEN /\ memOutcome' = "ok"
                 /\ UNCHANGED <<dirty, fileVars>>
            ELSE /\ writes' = writes + 1
                 /\ dirty' = InMemoryStore_sync_dirty(fails)
                 /\ IF fails
                    THEN /\ memOutcome' = "OSError"
                         /\ store_file' \in {store_file, Torn}
                    ELSE /\ memOutcome' = "ok"
                         /\ \E order \in SelectAllOrders(storage) :
                              store_file' = JsonFileWriter_write(order)
                 /\ UNCHANGED <<db_file, db_exists>>
    /\ UNCHANGED <<storage, conn, rows, memResult, sqlResult, sqlOutcome,
                   clock, calls>>

\* SqliteStore.sync(NoOpWriter): writer.write(None), then conn.close();
\* closing rolls back what the connection has not committed
SqliteStoreSync ==
    /\ conn = "open"
    /\ conn' = "closed"
    /\ sqlOutcome' = "ok"
    /\ lastOp' = [op |-> "sqlite_sync", arg |-> None, again |-> FALSE]
    /\ UNCHANGED <<storage, dirty, rows, memResult, sqlResult, memOutcome,
                   clock, calls, fileVars>>

\* a new SqliteStore.init on the same database file after the sync
StoreReopen ==
    /\ conn = "closed"
    /\ conn' = "open"
    /\ rows' = db_file
    /\ sqlOutcome' = "ok"
    /\ lastOp' = [op |-> "reopen", arg |-> None, again |-> FALSE]
    /\ UNCHANGED <<storage, dirty, memResult, sqlResult, memOutcome,
                   clock, calls, fileVars>>

\* the entries the session puts and removes: one the earlier session
\* persisted and a new one
SessionEntries ==
    { Persisted[1], Entry(<<"2">>, <<"K">>, 1, <<"a">>, None, <<"c">>, None) }

PersistNext ==
    \/ StoreOpen /\ UNCHANGED <<backendVars, dirVars, fnVars, textVars>>
    \/ PutOf(SessionEntries) /\ UNCHANGED <<backendVars, dirVars, fileVars, fnVars, textVars>>
    \/ RemoveOf(SessionEntries) /\ UNCHANGED <<backendVars, dirVars, fileVars, fnVars, textVars>>
    \/ InMemoryStoreSync /\ UNCHANGED <<backendVars, dirVars, fnVars, textVars>>
    \/ SqliteStoreSync /\ UNCHANGED <<backendVars, dirVars, fnVars, textVars>>
    \/ StoreReopen /\ UNCHANGED <<backendVars, dirVars, fnVars, textVars>>

SpecPersist == PersistInitState /\ [][PersistNext]_vars

\* C16: SqliteStore.sync commits before it releases the connection.  The
\* rows the connection held when sync was called (every put and remove the
\* session executed applied) are the committed rows of the database after
\* sync, and a connection opened on the database afterwards sees them.
C16_SyncCommits ==
    [][ /\ lastOp'.op = "sqlite_sync" => db_file' = rows
        /\ lastOp'.op = "reopen" => rows' = rows ]_vars

\* C17: InMemoryStore.sync is a no-op when the store is not dirty.  A sync
\* called right after init, or right after a sync that returned normally,
\* calls writer.write not at all, leaves the file as it is and raises
\* nothing; so does every sync of a store that is not dirty.
C17_SyncNoOp ==
    [][ ( /\ lastOp'.op = "sync"
          /\ \/ lastOp.op = "init"
             \/ lastOp.op = "sync" /\ memOutcome = "ok"
             \/ ~dirty )
        => /\ writes' = writes
           /\ store_file' = store_file
           /\ memOutcome' = "ok"
           /\ dirty' = dirty ]_vars

\* a sync that wrote, followed by another sync: one write in all
C17_Witness ==
    /\ lastOp.op = "sync"
    /\ lastOp.again
    /\ writes = 1
    /\ ~dirty
    /\ memOutcome = "ok"
    /\ store_file # None

\* a session of the JSON backend: the store with its reader and writer, or
\* JsonApplication on a directory of its own
JsonNext ==
    \/ PersistNext /\ calls = 0
    \/ BackendNext /\ conn = "none" /\ store_file = None /\ ~db_exists

SpecJson == PersistInitState /\ [][JsonNext]_vars

\* the timestamps of a list of entries never decrease
Ascending(list) ==
    \A i, j \in DOMAIN list : i < j => list[i].timestamp <= list[j].timestamp

\* a list holds exactly the entries of a set, each once
HoldsEachOnce(list, held) ==
    /\ Len(list) = Cardinality(held)
    /\ Elements(list) = held

\* the entries the file JsonFileWriter wrote reads back as
StoreFileEntries(file) ==
    [i \in DOMAIN file[2][2] |->
        Entry_from_dict(remap_keys_camel_to_snake(file[2][2][i][2]))]

\* the record an element of JsonApplication's data file stands for
DataFileEntries(file) ==
    [i \in DOMAIN file[2] |->
        [entry_id |-> file[2][i].id, key_id |-> file[2][i].key_id,
         timestamp |-> fromisoformat(file[2][i].timestamp),
         description |-> file[2][i].description,
         ciphertext |-> from_base64(file[2][i].ciphertext)]]

\* the same fields of an entry of JsonApplication
Fields(entry) ==
    [key \in {"entry_id", "key_id", "timestamp", "description", "ciphertext"} |->
        entry[key]]

C19_FailedSyncStaysDirty ==
    [][ /\ ( lastOp'.op = "sync" /\ lastOp'.arg = Writer(TRUE) /\ dirty )
           => /\ memOutcome' = "OSError"
              /\ storage' = storage
              /\ dirty'
        /\ ( lastOp.op = "sync" /\ memOutcome = "OSError" /\ lastOp'.op = "sync" )
           => writes' = writes + 1
        /\ ( dirty /\ ~dirty' )
           => /\ lastOp'.op = "sync"
              /\ lastOp'.arg = Writer(FALSE)
              /\ writes' = writes + 1
              /\ memOutcome' = "ok" ]_vars

\* a sync whose write raised has been tried again, and the write raised again
C19_Witness ==
    /\ lastOp.op = "sync"
    /\ lastOp.again
    /\ lastOp.arg = Writer(TRUE)
    /\ memOutcome = "OSError"
    /\ writes = 2
    /\ dirty
    /\ InMemoryStore_get_count(storage) > 0

\* an element of the persisted array that is not a record: not an object, a
\* required key missing, a value that is not a string, or a timestamp or
\* ciphertext that does not parse
IsBadElement(item) ==
    \/ item[1] # "object"
    \/ \E key \in {"id", "keyId", "timestamp", "description", "ciphertext"} :
         key \notin DOMAIN item[2]
    \/ \E key \in DOMAIN item[2] : item[2][key][1] \notin {"str", "null"}
    \/ \E key \in {"id", "keyId", "timestamp", "description", "ciphertext"} :
         item[2][key][1] # "str"
    \/ ~IsIsoformat(item[2]["timestamp"][2])
    \/ ~IsBase64(item[2]["ciphertext"][2])

\* the file init read is a JSON array
HoldsList(file) == file # None /\ file[1] = "json" /\ file[2][1] = "list"

\* C20: All-or-nothing load.  When an element of the persisted array is not
\* a record, init raises and the store holds none of the file's records,
\* also not the valid ones before the bad element; when init returns, every
\* element of the array is in the store.
C20_AllOrNothingLoad ==
    ( lastOp.op = "init" /\ HoldsList(store_file) )
    => IF \E i \in DOMAIN store_file[2][2] : IsBadElement(store_file[2][2][i])
       THEN /\ memOutcome \in {"TypeError", "ValueError"}
            /\ InMemoryStore_get_count(storage) = 0
       ELSE /\ memOutcome = "ok"
            /\ InMemoryStore_select_all(storage)
                 = Elements(StoreFileEntries(store_file))
            /\ InMemoryStore_get_count(storage) = Len(store_file[2][2])

\* init has raised at the second element of a file whose first is valid
C20_Witness ==
    /\ lastOp.op = "init"
    /\ HoldsList(store_file)
    /\ Len(store_file[2][2]) = 2
    /\ ~IsBadElement(store_file[2][2][1])
    /\ IsBadElement(store_file[2][2][2])
    /\ memOutcome = "ValueError"
    /\ InMemoryStore_get_count(storage) = 0

\* C21: For every backend, init fails with a not-found error when its
\* backing storage does not exist yet and does not create it: the JSON data
\* file for InMemoryStore, the database file for SqliteStore.
C21_InitNotFound ==
    [][ lastOp'.op = "init"
        => /\ store_file = None
              => memOutcome' = "FileNotFoundError" /\ store_file' = None
           /\ ~db_exists
              => sqlOutcome' # "ok" /\ ~db_exists' ]_vars

-----------------------------------------------------------------------------
(***************************************************************************)
(* Entry and SecureEntry through their dictionaries.                       *)
(***************************************************************************)

\* a Python dictionary as Entry.from_dict sees it: each value with its type
Typed(dict) ==
    [key \in DOMAIN dict |->
        IF dict[key] = None THEN <<"null">> ELSE JsonStr(dict[key])]

\* the values an optional field of an entry can have: None, "" or a text
OptionalFields == { None, <<>>, <<"x">> }

ValidEntries ==
    { Entry(<<"1">>, <<"K">>, t, <<"a">>, identity, ciphertext, meta) :
        t \in Timestamps, identity \in OptionalFields, meta \in OptionalFields,
        ciphertext \in { <<>>, <<"c">> } }

ValidSecureEntries ==
    { SecureEntry(<<"1">>, <<"K">>, t, <<"a">>, identity, <<"p">>, meta) :
        t \in Timestamps, identity \in OptionalFields, meta \in OptionalFields }

\* a dictionary with an optional key left out, or set to a value
WithOptional(dict, key, value) ==
    IF value = <<"absent">> THEN dict ELSE dict @@ (key :> value)

\* the dictionaries Entry.from_dict accepts: identity and meta absent, null,
\* the empty string or a text
EntryDicts ==
    { WithOptional(
          WithOptional(
              [timestamp |-> isoformat(t), id |-> <<"1">>, key_id |-> <<"K">>,
               description |-> <<"a">>, ciphertext |-> to_base64(<<"c">>)],
              "identity", identity),
          "meta", meta) :
        t \in Timestamps,
        identity \in OptionalFields \cup { <<"absent">> },
        meta \in OptionalFields \cup { <<"absent">> } }

SecureEntryDicts ==
    { WithOptional(
          WithOptional(
              [timestamp |-> isoformat(t), id |-> <<"1">>, key_id |-> <<"K">>,
               description |-> <<"a">>, plaintext |-> <<"p">>],
              "identity", identity),
          "meta", meta) :
        t \in Timestamps,
        identity \in OptionalFields \cup { <<"absent">> },
        meta \in OptionalFields \cup { <<"absent">> } }

\* Entry.from_dict(e.to_dict())
EntryThroughDict ==
    \E e \in ValidEntries :
        /\ ~Entry_from_dict_raises(Typed(Entry_to_dict(e)))
        /\ argument' = <<"Entry", e>>
        /\ returned' = Entry_from_dict(Typed(Entry_to_dict(e)))

\* Entry.from_dict(d).to_dict()
DictThroughEntry ==
    \E d \in EntryDicts :
        /\ ~Entry_from_dict_raises(Typed(d))
        /\ argument' = <<"dict", d>>
        /\ returned' = Entry_to_dict(Entry_from_dict(Typed(d)))

\* SecureEntry.from_dict(e.to_dict())
SecureEntryThroughDict ==
    \E e \in ValidSecureEntries :
        /\ argument' = <<"SecureEntry", e>>
        /\ returned' = SecureEntry_from_dict(SecureEntry_to_dict(e))

\* SecureEntry.from_dict(d).to_dict()
DictThroughSecureEntry ==
    \E d \in SecureEntryDicts :
        /\ argument' = <<"secure dict", d>>
        /\ returned' = SecureEntry_to_dict(SecureEntry_from_dict(d))

RoundTripNext ==
    \/ EntryThroughDict /\ UNCHANGED <<storeVars, backendVars, dirVars, fileVars, textVars>>
    \/ DictThroughEntry /\ UNCHANGED <<storeVars, backendVars, dirVars, fileVars, textVars>>
    \/ SecureEntryThroughDict
         /\ UNCHANGED <<storeVars, backendVars, dirVars, fileVars, textVars>>
    \/ DictThroughSecureEntry
         /\ UNCHANGED <<storeVars, backendVars, dirVars, fileVars, textVars>>

SpecRoundTrip == InitState /\ [][RoundTripNext]_vars

\* C22: Round-trip.  For every valid Entry e, Entry.from_dict(e.to_dict())
\* equals e, and for every dictionary d that Entry.from_dict accepts,
\* Entry.from_dict(d).to_dict() equals d, with identity and meta present,
\* null or the empty string; the same for SecureEntry.
C22_RoundTrip ==
    argument # None => returned = argument[2]

-----------------------------------------------------------------------------
(* Read-your-writes on the two stores.                                      *)

\* the query a test runs after put(entry): Query(description=entry.description)
DescriptionQuery(entry) == Query(None, entry.description, None, None)

\* C23: after put(e) on a freshly initialised store, the query for e's
\* description returns exactly e with its seven fields, on both stores; and
\* every query with a field present returns, on both stores, each stored
\* record it matches
C23_ReadYourWrites ==
    [][ lastOp'.op = "query" =>
          /\ ( /\ lastOp.op = "put"
               /\ MemEntries = {lastOp.arg}
               /\ SqlEntries = {lastOp.arg}
               /\ lastOp'.arg = DescriptionQuery(lastOp.arg) )
             => /\ memOutcome' = "ok" /\ memResult' = {lastOp.arg}
                /\ sqlOutcome' = "ok" /\ sqlResult' = {lastOp.arg}
          /\ ~is_empty(lastOp'.arg)
             => /\ \A e \in MemEntries :
                     ClaimedMatch(lastOp'.arg, e) => e \in memResult'
                /\ \A e \in SqlEntries :
                     ClaimedMatch(lastOp'.arg, e)
                         => sqlOutcome' = "ok" /\ e \in sqlResult' ]_vars

\* the first half of C23 alone
C23_FreshPutThenQuery ==
    [][ ( /\ lastOp.op = "put"
          /\ MemEntries = {lastOp.arg}
          /\ SqlEntries = {lastOp.arg}
          /\ lastOp'.op = "query"
          /\ lastOp'.arg = DescriptionQuery(lastOp.arg) )
        => /\ memOutcome' = "ok" /\ memResult' = {lastOp.arg}
           /\ sqlOutcome' = "ok" /\ sqlResult' = {lastOp.arg} ]_vars

-----------------------------------------------------------------------------
(* The schema marker.                                                       *)

\* C24: get_schema_version returns the version stored in the schema file when
\* the file exists and writes nothing; when the file is absent it writes the
\* current schema version to it and returns that version; and a call that
\* follows another returns the same version without writing again
C24_SchemaMarker ==
    [][ lastStart'.op = "application" =>
          /\ schema_file # None
             => /\ lastStart'.found = SchemaVersion_from_str(schema_file)
                /\ ~lastStart'.wrote
                /\ schema_file' = schema_file
          /\ schema_file = None
             => /\ lastStart'.found = CURRENT_SCHEMA_VERSION
                /\ lastStart'.wrote
                /\ schema_file' = SchemaVersion_str(CURRENT_SCHEMA_VERSION)
          /\ lastStart.op = "application"
             => /\ lastStart'.found = lastStart.found
                /\ ~lastStart'.wrote
                /\ schema_file' = schema_file ]_vars

\* C24 witness: the second of two calls on a directory that had no marker has
\* returned the current version, written by the first, and written nothing
C24_Witness ==
    /\ lastStart.op = "application"
    /\ startups = 2
    /\ steps = <<>>
    /\ cfg_data_file = None
    /\ lastStart.found = CURRENT_SCHEMA_VERSION
    /\ ~lastStart.wrote
    /\ schema_file = SchemaVersion_str(CURRENT_SCHEMA_VERSION)

-----------------------------------------------------------------------------
(* One migration step on its own, with the failures a step can meet.        *)

\* json.load on the data file: a list of objects, a list holding a value
\* that is no object, or a value that is no list
JsonList(data) == <<"list", [i \in 1..Len(data) |-> <<"object", data[i]>>]>>

\* isinstance(data, list)
IsJsonList(value) == value[1] = "list"

\* isinstance(entry, dict)
IsJsonDict(value) == value[1] = "object"

\* the dictionaries of a list whose elements are all objects
Dicts(value) == [i \in 1..Len(value[2]) |-> value[2][i][2]]

\* what a JSON step raises on the value it loaded, "ok" when it goes on to
\* write the file
JsonStepOutcome(value) ==
    IF ~IsJsonList(value) THEN "MigrationError"
    ELSE IF \E i \in 1..Len(value[2]) : ~IsJsonDict(value[2][i])
    THEN "MigrationError"
    ELSE "ok"

\* _migrate_json_v2_to_v3 / _migrate_json_v3_to_v4 on the data file: load,
\* check and change every element in memory, then write the file once
JsonStep(file, step, n) ==
    IF JsonStepOutcome(file[2]) # "ok"
    THEN MigrationResult(file, <<>>, n, JsonStepOutcome(file[2]))
    ELSE IF step = <<2, 3>>
    THEN MigrationResult(<<"json", JsonList(migrate_json_v2_to_v3(Dicts(file[2])))>>,
                         <<step>>, n, "ok")
    ELSE MigrationResult(<<"json", JsonList(migrate_json_v3_to_v4(Dicts(file[2]), n))>>,
                         <<step>>, n + Len(file[2][2]), "ok")

\* the name a SQL step renames table entries to
RenamedTable(step) == IF step = <<1, 2>> THEN "entries_v1" ELSE "entries_v3"

\* the tables after a SQL step raised once the rename was done: ALTER TABLE
\* and CREATE TABLE ran outside a transaction and stay, the rows inserted and
\* updated since are rolled back when the connection's context exits
AfterRollback(tables, step) ==
    [name \in DOMAIN tables \cup {RenamedTable(step)} |->
        IF name = "entries" THEN {}
        ELSE IF name = RenamedTable(step) THEN tables["entries"]
        ELSE tables[name]]

\* SELECT ... keyid ... FROM entries_v3 names a column the table has not
LacksKeyId(tables) ==
    \E row \in tables["entries"] : "keyid" \notin DOMAIN row

\* the points a SQL step can fail at
SqlFaults == {"none", "rename", "insert", "update"}

\* _migrate_sqlite_v1_to_v2 / _migrate_sqlite_v3_to_v4 on the tables of the
\* data file, with the statement that raises
SqliteStep(file, step, key_id, old_ids, n, fault) ==
    IF fault = "rename" \/ RenamedTable(step) \in DOMAIN file[2]
    THEN MigrationResult(file, <<>>, n, "OperationalError")
    ELSE IF fault = "insert" \/ (step = <<3, 4>> /\ LacksKeyId(file[2]))
    THEN MigrationResult(<<"sqlite", AfterRollback(file[2], step)>>, <<>>, n,
                         "IntegrityError")
    ELSE IF fault = "update"
    THEN MigrationResult(<<"sqlite", AfterRollback(file[2], step)>>, <<>>, n + 1,
                         "OperationalError")
    ELSE IF step = <<1, 2>>
    THEN MigrationResult(<<"sqlite", migrate_sqlite_v1_to_v2(file[2], key_id)>>,
                         <<step>>, n, "ok")
    ELSE MigrationResult(<<"sqlite", migrate_sqlite_v3_to_v4(file[2], old_ids, n)>>,
                         <<step>>, n + Len(old_ids), "ok")

\* the data files a step is run on: those of a schema version and, for JSON, a file that holds an object and a file whose list
\* holds a string
StepFiles(cfg_backend, version) ==
    IF cfg_backend = "JSON"
    THEN { <<"json", JsonList(file[2])>> :
             file \in DataFiles("JSON", version) \ {None} }
         \cup { <<"json", <<"object", JsonRecord(1, version)>>>>,
                <<"json", <<"list", << <<"object", JsonRecord(1, version)>>,
                                       <<"str", <<"x">>>> >>>>>> }
    ELSE DataFiles("SQLITE", version) \ {None}

\* the steps of a backend that change the data file
StepsOf(cfg_backend) ==
    IF cfg_backend = "JSON" THEN { <<2, 3>>, <<3, 4>> } ELSE { <<1, 2>>, <<3, 4>> }

StepInitState ==
    /\ StoreInitState
    /\ BackendInitState
    /\ NoFiles
    /\ NoConversion
    /\ NoLookup
    /\ backend \in {"JSON", "SQLITE"}
    /\ schema_file = None
    /\ \E step \in StepsOf(backend) :
         cfg_data_file \in StepFiles(backend, step[1])
    /\ steps = <<>>
    /\ migOutcome = "ok"
    /\ lastStart = NoStart
    /\ startups = 0
    /\ uuids = 0

\* one step of the backend called on its own on the data file
MigrationStep ==
    /\ startups < MaxStartups
    /\ \E step \in StepsOf(backend), fault \in SqlFaults,
          old_ids \in OldIds(cfg_data_file) :
         LET result == IF backend = "JSON"
                       THEN JsonStep(cfg_data_file, step, uuids)
                       ELSE SqliteStep(cfg_data_file, step, CodecKeyId,
                                       old_ids, uuids, fault)
         IN  /\ backend = "JSON" => fault = "none"
             \* the key remapping is not run on a file that already holds
             \* both an Id and an id key
             /\ (backend = "JSON" /\ step = <<2, 3>>) => steps # << <<3, 4>> >>
             /\ (fault = "insert") => cfg_data_file[2]["entries"] # {}
             /\ (fault = "update")
                    => step = <<3, 4>> /\ cfg_data_file[2]["entries"] # {}
             /\ cfg_data_file' = result.file
             /\ steps' = result.steps
             /\ uuids' = result.uuids
             /\ migOutcome' = result.outcome
             /\ lastStart' = [op |-> "step", found |-> step[1], fault |-> fault]
    /\ startups' = startups + 1
    /\ UNCHANGED <<backend, schema_file>>

StepNext ==
    \/ MigrationStep /\ UNCHANGED <<storeVars, backendVars, fileVars, fnVars, textVars>>

SpecSteps == StepInitState /\ [][StepNext]_vars

\* C25: a migration step that fails part-way (a JSON step on a file that
\* holds no array or an element that is no object, a SQL step that raises
\* after the rename or during the id rewrite) leaves the data file, and so
\* table entries, exactly as it was before the step, and leaves no
\* entries_v1 or entries_v3 table
C25_StepAtomic ==
    [][ (lastStart'.op = "step" /\ migOutcome' # "ok")
        => /\ cfg_data_file' = cfg_data_file
           /\ cfg_data_file'[1] = "sqlite"
              => DOMAIN cfg_data_file'[2] = {"entries"} ]_vars

\* the JSON half of C25 alone
C25_JsonStepAtomic ==
    [][ (lastStart'.op = "step" /\ migOutcome' # "ok" /\ backend = "JSON")
        => cfg_data_file' = cfg_data_file ]_vars

-----------------------------------------------------------------------------
(* TextApplication on its own: add, lookup, modify, remove and import, and  *)
(* the failures modify and remove can meet once they have their target.     *)

\* what the text application leaves alone of the other two applications
otherBackendVars == <<entries, data_file, database, jsonOutcome, sqliteOutcome>>

\* the index elements whose description matches, in index order
TextApplication_lookup_hits(elems, description) ==
    LET query == Query(None, description, None, None)
        Hit(elem) == match_description(query, elem.description)
    IN  SelectSeq(elems, Hit)

\* a lookup that asks for the object of every index element
TextApplication_lookup_reads_All(elems, files, description) ==
    LET hits == elems
        missing == { i \in 1..Len(hits) : hits[i].entry_id \notin DOMAIN files }
        last == IF missing = {} THEN Len(hits)
                ELSE CHOOSE i \in missing : \A j \in missing : i <= j
    IN  [i \in 1..last |-> hits[i].entry_id]

\* the object files lookup asks for: those of the hits, up to the first one
\* that is missing
TextApplication_lookup_reads(elems, files, description) ==
    LET hits == TextApplication_lookup_hits(elems, description)
        missing == { i \in 1..Len(hits) : hits[i].entry_id \notin DOMAIN files }
        last == IF missing = {} THEN Len(hits)
                ELSE CHOOSE i \in missing : \A j \in missing : i <= j
    IN  [i \in 1..last |-> hits[i].entry_id]

\* lookup raises when an object file it asks for is missing
TextApplication_lookup_outcome(elems, files, description) ==
    IF \E i \in 1..Len(elems) :
          /\ match_description(Query(None, description, None, None),
                               elems[i].description)
          /\ elems[i].entry_id \notin DOMAIN files
    THEN "FileNotFoundError"
    ELSE "ok"

\* TextApplication.lookup(description, maybe_identity): the entries of the
\* hits whose identity matches
TextApplication_lookup(elems, files, description, maybe_identity) ==
    LET query == Query(None, description, maybe_identity, None)
        hits == TextApplication_lookup_hits(elems, description)
        read == [i \in 1..Len(hits) |-> TextApplication_entry(files, hits[i].entry_id)]
        Kept(entry) == match_identity(query, entry)
    IN  IF TextApplication_lookup_outcome(elems, files, description) # "ok"
        THEN <<>>
        ELSE SelectSeq(read, Kept)

TextResult(elems, files, index, outcome) ==
    [elements |-> elems, objects |-> files, index_file |-> index,
     outcome |-> outcome]

\* the statements of modify that can raise once the element is popped:
\* cipher.decrypt in entry, cipher.encrypt in write_entry, the index write
ModifyFaults == {"none", "decrypt", "encrypt", "index"}

\* TextApplication.modify once one element matches the target
TextApplication_modify(elems, files, index, target, args, timestamp, nonce, fault) ==
    LET idx == FirstIdx(idxs(elems, target))
        popped == Pop(elems, idx)
    IN  IF elems[idx].entry_id \notin DOMAIN files
        THEN TextResult(popped, files, index, "FileNotFoundError")
        ELSE IF fault = "decrypt"
        THEN TextResult(popped, files, index, "DecryptError")
        ELSE IF fault = "encrypt"
        THEN TextResult(popped, files, index, "EncryptError")
        ELSE LET written == TextApplication_modify_objects(files, elems, target, args,
                                                           timestamp, nonce)
                 appended == TextApplication_modify_elements(elems, target, args)
             IN  IF fault = "index"
                 THEN TextResult(appended, written, index, "OSError")
                 ELSE TextResult(appended, written,
                                 TextApplication_write_index(appended, nonce), "ok")

\* the statements of remove that can raise once the element is popped:
\* path.unlink in delete_entry, the index write
RemoveFaults == {"none", "unlink", "index"}

\* TextApplication.remove once one element matches the target
TextApplication_remove(elems, files, index, target, nonce, fault) ==
    LET idx == FirstIdx(idxs(elems, target))
        popped == Pop(elems, idx)
    IN  IF elems[idx].entry_id \notin DOMAIN files
        THEN TextResult(popped, files, index, "FileNotFoundError")
        ELSE IF fault = "unlink"
        THEN TextResult(popped, files, index, "OSError")
        ELSE LET deleted == TextApplication_delete_entry(files, elems[idx].entry_id)
             IN  IF fault = "index"
                 THEN TextResult(popped, deleted, index, "OSError")
                 ELSE TextResult(popped, deleted,
                                 TextApplication_write_index(popped, nonce), "ok")

RECURSIVE TextApplication_import_objects(_, _, _)
\* the object files after import_entries wrote each imported entry in turn
TextApplication_import_objects(files, imported, nonce) ==
    IF imported = <<>> THEN files
    ELSE TextApplication_import_objects(
             TextApplication_write_entry(files, Head(imported), nonce),
             Tail(imported), nonce)

\* the index after import_entries appended the element of each imported entry
TextApplication_import_elements(elems, imported) ==
    elems \o [i \in 1..Len(imported) |-> to_index_element(imported[i])]

\* the files import_entries is given: an export that holds a record under
\* the id of the first record added here, and a file with a record of
\* another id
ImportFiles ==
    { << SecureEntry(EntryId_generate(1), CodecKeyId, 0, <<"z">>, None, <<"q">>, None) >>,
      << SecureEntry(EntryId_generate(0), CodecKeyId, 0, <<"A", "b">>, <<"x">>,
                     <<"q">>, <<"m">>) >> }

\* what lookup is called with
LookupDescriptions == { <<"a">>, <<"b">>, <<"z">> }
LookupIdentities == { None, <<"x">> }

\* the targets of modify and remove on the text application
TextTargets ==
    { DescriptionTarget(<<"A">>), DescriptionTarget(<<"b">>), DescriptionTarget(<<"z">>) }
    \cup { IdTarget(elements[i].entry_id) : i \in 1..Len(elements) }

TextAdd ==
    \E description \in BackendDescriptions, im \in AddIdentityMeta, timestamp \in Now :
        LET nonce == calls + 1
            entry == SecureEntry(EntryId_generate(nonce), CodecKeyId, timestamp,
                                 description, im[1], <<"p">>, im[2])
        IN /\ calls < MaxCalls
           /\ Len(elements) < MaxEntries
           /\ objects' = TextApplication_write_entry(objects, entry, nonce)
           /\ elements' = Append(elements, to_index_element(entry))
           /\ index_file' = TextApplication_write_index(elements', nonce)
           /\ textOutcome' = "ok"
           /\ lastCall' = [op |-> "add", target |-> IdTarget(entry.entry_id),
                           args |-> [description |-> description, identity |-> im[1],
                                     plaintext |-> <<"p">>, meta |-> im[2]]]
           /\ clock' = timestamp
           /\ calls' = calls + 1
           /\ UNCHANGED textVars

TextLookup ==
    \E description \in LookupDescriptions, maybe_identity \in LookupIdentities :
        /\ reads' = TextApplication_lookup_reads(elements, objects, description)
        /\ looked' = TextApplication_lookup(elements, objects, description, maybe_identity)
        /\ textOutcome' = TextApplication_lookup_outcome(elements, objects, description)
        /\ lastCall' = [op |-> "lookup", target |-> DescriptionTarget(description),
                        args |-> [description |-> description,
                                  identity |-> maybe_identity]]
        /\ UNCHANGED <<elements, objects, index_file, clock, calls>>

TextModifyOf(faults) ==
    \E target \in TextTargets, args \in ModifyArgs, timestamp \in Now, fault \in faults :
        LET nonce == calls + 1
            outcome == IdxsOutcome(idxs(elements, target))
        IN /\ calls < MaxCalls
           /\ IF outcome # "ok"
              THEN /\ fault = "none"
                   /\ textOutcome' = outcome
                   /\ UNCHANGED <<elements, objects, index_file>>
              ELSE LET result == TextApplication_modify(elements, objects, index_file,
                                     target, args, timestamp, nonce, fault)
                   IN  /\ elements' = result.elements
                       /\ objects' = result.objects
                       /\ index_file' = result.index_file
                       /\ textOutcome' = result.outcome
           /\ lastCall' = [op |-> "modify", target |-> target, args |-> args]
           /\ clock' = timestamp
           /\ calls' = calls + 1
           /\ UNCHANGED textVars

TextRemoveOf(faults) ==
    \E target \in TextTargets, fault \in faults :
        LET nonce == calls + 1
            outcome == IdxsOutcome(idxs(elements, target))
        IN /\ calls < MaxCalls
           /\ IF outcome # "ok"
              THEN /\ fault = "none"
                   /\ textOutcome' = outcome
                   /\ UNCHANGED <<elements, objects, index_file>>
              ELSE LET result == TextApplication_remove(elements, objects, index_file,
                                     target, nonce, fault)
                   IN  /\ elements' = result.elements
                       /\ objects' = result.objects
                       /\ index_file' = result.index_file
                       /\ textOutcome' = result.outcome
           /\ lastCall' = [op |-> "remove", target |-> target, args |-> None]
           /\ calls' = calls + 1
           /\ UNCHANGED <<clock, textVars>>

TextImport ==
    \E imported \in ImportFiles :
        LET nonce == calls + 1
        IN /\ calls < MaxCalls
           /\ Len(elements) + Len(imported) <= MaxEntries
           /\ objects' = TextApplication_import_objects(objects, imported, nonce)
           /\ elements' = TextApplication_import_elements(elements, imported)
           /\ index_file' = TextApplication_write_index(elements', nonce)
           /\ textOutcome' = "ok"
           /\ lastCall' = [op |-> "import", target |-> None, args |-> imported]
           /\ calls' = calls + 1
           /\ UNCHANGED <<clock, textVars>>

textOtherVars == <<storeOnlyVars, otherBackendVars, dirVars, fileVars, fnVars>>

TextNext ==
    \/ TextAdd /\ UNCHANGED textOtherVars
    \/ TextLookup /\ UNCHANGED textOtherVars
    \/ TextModifyOf({"none"}) /\ UNCHANGED textOtherVars
    \/ TextRemoveOf({"none"}) /\ UNCHANGED textOtherVars
    \/ TextImport /\ UNCHANGED textOtherVars

SpecText == InitState /\ [][TextNext]_vars

TextFaultsNext ==
    \/ TextAdd /\ UNCHANGED textOtherVars
    \/ TextModifyOf(ModifyFaults) /\ UNCHANGED textOtherVars
    \/ TextRemoveOf(RemoveFaults) /\ UNCHANGED textOtherVars

SpecTextFaults == InitState /\ [][TextFaultsNext]_vars

\* the ids of a sequence of reads
ReadIds == { reads[i] : i \in 1..Len(reads) }

\* the decrypted record of every object file
ObjectRecords == { TextApplication_entry(objects, i) : i \in DOMAIN objects }

\* the half of C26 about the object files read: one is read only for an
\* index element whose description matches the query
C26_ReadsOnlyHits ==
    (lastCall.op = "lookup" /\ textOutcome = "ok") =>
        ReadIds = { elements[i].entry_id :
                      i \in { j \in 1..Len(elements) :
                                ContainsIgnoringCase(lastCall.args.description,
                                                     elements[j].description) } }

\* C26: lookup reads and decrypts an object file only for the index elements
\* whose description matches the query, never for one whose description does
\* not match, and returns exactly the decrypted records whose description
\* and identity both match
C26_LookupFiltersIndex ==
    (lastCall.op = "lookup" /\ textOutcome = "ok") =>
        /\ ReadIds = { elements[i].entry_id :
                         i \in { j \in 1..Len(elements) :
                                   ContainsIgnoringCase(lastCall.args.description,
                                                        elements[j].description) } }
        /\ { looked[i] : i \in 1..Len(looked) }
             = { record \in ObjectRecords :
                   /\ ContainsIgnoringCase(lastCall.args.description,
                                           record.description)
                   /\ lastCall.args.identity # None
                        => ContainsIgnoringCase(lastCall.args.identity,
                                                record.identity) }

\* C27: after every successful add, modify, remove or import each index
\* element's entry_id, key_id and description are those of the object file
\* with that id, and the index file lists exactly the elements of the
\* in-memory index
C27_IndexMatchesObjects ==
    (lastCall.op \in {"add", "modify", "remove", "import"} /\ textOutcome = "ok") =>
        /\ \A i \in 1..Len(elements) :
             /\ elements[i].entry_id \in DOMAIN objects
             /\ elements[i] = to_index_element(
                                  TextApplication_entry(objects, elements[i].entry_id))
        /\ Text_decrypt(index_file) = elements

\* C27 without import: the calls that leave the index and the objects in
\* agreement
C27_WithoutImport ==
    [][ (lastCall'.op \in {"add", "modify", "remove"} /\ textOutcome' = "ok"
         /\ \A i \in 1..Len(elements) :
              /\ elements[i].entry_id \in DOMAIN objects
              /\ elements[i] = to_index_element(
                                   TextApplication_entry(objects, elements[i].entry_id)))
        => /\ \A i \in 1..Len(elements') :
                /\ elements'[i].entry_id \in DOMAIN objects'
                /\ elements'[i] = to_index_element(
                                      TextApplication_entry(objects', elements'[i].entry_id))
           /\ Text_decrypt(index_file') = elements' ]_vars

\* the errors modify and remove raise before they have selected a target
NoTarget == {"NoEntries", "MultipleEntries"}

\* C30: a modify or remove that fails after it has selected its target
\* leaves the in-memory index, the index file and the object files as they
\* were before the call
C30_FailureLeavesStore ==
    [][ ( /\ lastCall'.op \in {"modify", "remove"}
          /\ calls' = calls + 1
          /\ textOutcome' \notin NoTarget \cup {"ok"} )
        => /\ elements' = elements
           /\ index_file' = index_file
           /\ objects' = objects ]_vars

-----------------------------------------------------------------------------
(* The dirty flag of InMemoryStore.                                         *)

\* the record set the store file holds: what init reads from it
FileRecords == Elements(JsonFileReader_read(store_file).entries)

\* C28: in every state reached by init followed by put, remove and sync, a
\* store whose dirty flag is false holds exactly the records last read by
\* init or last written by a successful sync, which are the records of the
\* store file
C28_DirtyFlag ==
    (conn \in {"open", "closed"} /\ ~dirty) => MemEntries = FileRecords

\* C28 witness: a record put in this session has been written by a
\* successful sync, and the flag is false again
C28_Witness ==
    /\ lastOp.op = "sync"
    /\ lastOp.arg = Writer(FALSE)
    /\ memOutcome = "ok"
    /\ writes > 0
    /\ ~dirty
    /\ \E e \in MemEntries : e.entry_id = <<"2">>
    /\ MemEntries = FileRecords

-----------------------------------------------------------------------------
(* The number of records across Application.modify.                         *)

\* C29: a successful Application.modify never decreases the number of
\* records the store holds, on InMemoryStore and on SqliteStore, the case
\* where the new record's id equals the old record's id included
C29_ModifyKeepsCount ==
    [][ lastOp'.op = "modify"
        => /\ memOutcome' = "ok"
              => InMemoryStore_get_count(storage') >= InMemoryStore_get_count(storage)
           /\ sqlOutcome' = "ok"
              => SqliteStore_get_count(rows') >= SqliteStore_get_count(rows) ]_vars

====
